---- MODULE Spec2Model ----
(***************************************************************************)
(* Outpost job lifecycle and dispatch pipeline.                            *)
(*                                                                         *)
(* The model follows the Python sources statement by statement at the      *)
(* granularity of one external call (DynamoDB, SQS, subprocess) per step:  *)
(*   functions/api/jobs.py   JobAPI.submit_job / get_job / cancel_job and  *)
(*                           the Lambda handler                            *)
(*   worker/main.py          JobPoller.start / process_message             *)
(*   worker/executor.py      Worker.update_job_status / Worker.execute     *)
(*   services/audit.py       AuditService.log_action / get_tenant_audit    *)
(*   functions/authorizer    Authorizer.validate_key and its handler       *)
(*   functions/api           api_keys.py and tenants.py                    *)
(*   secrets/manager.py      SecretsManager                                *)
(* API invocations (Clients) and pollers (Workers) are separate processes  *)
(* that share the jobs table, the audit table and the queue; the pollers   *)
(* also share the file system of the host they run on.                     *)
(***************************************************************************)
EXTENDS Integers, Sequences, FiniteSets, TLC

\* ------------------------------------------------------------ bounds
MaxJobs == 1          \* job ids that ulid.new() hands out in one behaviour
MaxReceives == 2      \* receive_message calls that return a message
MaxOps == 3           \* tenant and key operations in one behaviour
MaxListed == 3        \* jobs one tenant has stored when list_jobs is called
MaxClock == 500       \* seconds of time.time() in one behaviour
MaxFaults == 1        \* environment events in one behaviour: a failed store,
                      \* queue or audit call, a failed spawn, a foreign
                      \* message, or two audit writes of one tenant with the
                      \* same timestamp

\* self._cache_ttl = 300
CacheTtl == 300

\* def list_jobs(self, tenant_id, limit: int = 50)
DefaultLimit == 50

\* ------------------------------------------------------------ universe
Tenants == {"T1", "T2"}
Clients == {"c1"}
Workers == {"w1", "w2"}
JobIds == 1..MaxJobs

Null == "null"

\* models/job.py JobStatus
PENDING == "pending"
RUNNING == "running"
SUCCESS == "success"
FAILED == "failed"
CANCELLED == "cancelled"
JobStatus == {PENDING, RUNNING, SUCCESS, FAILED, CANCELLED}
Terminal == {SUCCESS, FAILED, CANCELLED}

\* models/job.py AgentType
AgentType == {"claude", "codex", "gemini", "grok", "aider"}

\* Request bodies a caller may post: "missing" stands for an absent field.
Missing == "missing"
Bodies ==
    {[agent |-> "claude", command |-> "ls"],
     [agent |-> "claude", command |-> ""],
     [agent |-> "bogus", command |-> "ls"],
     [agent |-> Missing, command |-> "ls"],
     [agent |-> "claude", command |-> Missing]}

\* What subprocess.Popen(...).communicate(timeout=600) can do.
\*   exit0        returncode 0
\*   exit1        returncode # 0 with stderr "boom"
\*   exit1quiet   returncode # 0 with stderr ""
\*   timeout      subprocess.TimeoutExpired
\*   spawn        Popen raised (OSError)
ExitOutcomes == {"exit0", "exit1", "exit1quiet", "timeout"}
Outcomes == ExitOutcomes \cup {"spawn"}

VARIABLES
    table,      \* jobs table: function from keys <<tenant_id, job_id>> to items
    queue,      \* SQS queue: set of messages [tenant_id, job_id, body,
                \* visible, recv]
    audit,      \* audit table: per tenant, entries in timestamp order
    queue_url,  \* JobAPI.queue_url: Null when JOBS_QUEUE_URL is unset
    nextId,     \* next identifier of ulid.new()
    apiPc,      \* per client: position in the handler
    apiReq,     \* per client: tenant and job id of the submit_job under way
    resp,       \* the response the step just taken returned to its caller
    wPc,        \* per worker: position in start/process_message/execute
    wMsg,       \* per worker: the message it holds, and (prior) the stored
                \* status that execute's RUNNING write replaced
    wOut,       \* per worker: outcome of the child process
    receives,   \* number of receive_message calls that returned a message
    sent,       \* per job id: send_message calls that succeeded
    runs,       \* per job id: times the command was spawned
    faults,     \* environment events so far
    tenantsTable, \* tenants table: function from keys <<tenant_id, sk>> to
                \* items (tenant METADATA items and KEY#... items)
    authOut,    \* what the authorizer's handler returned last
    lookup,     \* how the index query of that invocation went: "none" when
                \* no query was made, "ok", "raised"
    ops,        \* tenant and key operations so far
    listOut,    \* the arguments and the result of the last list_jobs call
    running,    \* per worker: JobPoller.running
    secrets,    \* the secrets backend: secret name -> SecretString, Null
                \* when there is no such secret
    cache,      \* SecretsManager._cache: secret name -> [value, timestamp]
    now,        \* time.time(), in seconds
    secretOut,  \* the last get_api_key_secret call: its secret name, what
                \* it returned and whether it read the backend
    workspace,  \* the file system of the host the consumer processes run
                \* on: the workspace directories that exist, by
                \* <<tenant_id, job_id>>, each with its files; a file is
                \* named after the execution that wrote it
    children    \* the child processes that are running, each named after
                \* the execution that spawned it

vars == <<table, queue, audit, queue_url, nextId, apiPc, apiReq, resp,
          wPc, wMsg, wOut, receives, sent, runs, faults,
          tenantsTable, authOut, lookup, ops, listOut, running,
          secrets, cache, now, secretOut, workspace, children>>

\* State of the jobs pipeline, and state of tenants, keys and authorizer
jobVars == <<table, queue, queue_url, nextId, apiPc, apiReq, resp,
             wPc, wMsg, wOut, receives, sent, runs>>

authVars == <<tenantsTable, authOut, lookup, ops>>

wVars == <<wPc, wMsg, wOut>>

\* State that the steps of the jobs pipeline, of tenants and keys and of the
\* authorizer never touch
secVars == <<secrets, cache, now, secretOut>>

\* The worker's host: its file system and its processes
hostVars == <<workspace, children>>

otherVars == <<listOut, running, secVars, hostVars>>

\* ------------------------------------------------------------ jobs table
\* Variant of Key that leaves the tenant out: job ids alone name the items.
Key_IgnoresTenant(t, j) == <<"T1", j>>

\* Key={"tenant_id": tenant_id, "job_id": job_id}
Key(t, j) == <<t, j>>

HasItem(tbl, t, j) == Key(t, j) \in DOMAIN tbl

\* Job(...).model_dump(mode="json") of a freshly built job
NewItem(cmd) ==
    [status |-> PENDING, completed_at |-> Null, error_message |-> Null,
     command |-> cmd]

\* Table.put_item: unconditional write of the whole item
PutItem(tbl, t, j, item) ==
    [k \in DOMAIN tbl \cup {Key(t, j)} |->
        IF k = Key(t, j) THEN item ELSE tbl[k]]

\* Table.get_item
GetItem(tbl, t, j) ==
    IF HasItem(tbl, t, j) THEN tbl[Key(t, j)] ELSE [status |-> Null]

\* Variant of UpdateJobStatus that never stamps completed_at.
UpdateJobStatus_NoStamp(tbl, t, j, status, error) ==
    LET old == IF <<t, j>> \in DOMAIN tbl THEN tbl[<<t, j>>]
               ELSE [status |-> Null, completed_at |-> Null,
                     error_message |-> Null, command |-> Null]
        e == IF error # Null /\ error # "" THEN error ELSE old.error_message
    IN [k \in DOMAIN tbl \cup {<<t, j>>} |->
            IF k = <<t, j>>
            THEN [old EXCEPT !.status = status, !.completed_at = Null,
                             !.error_message = e]
            ELSE tbl[k]]

\* Worker.update_job_status: update_item with SET #s = :s, completed_at = :c
\* and, only when error is truthy, error_message = :e.  There is no
\* ConditionExpression; update_item creates the item when the key is new.
UpdateJobStatus(tbl, t, j, status, error) ==
    LET old == IF HasItem(tbl, t, j) THEN tbl[Key(t, j)]
               ELSE [status |-> Null, completed_at |-> Null,
                     error_message |-> Null, command |-> Null]
        c == IF status \in {SUCCESS, FAILED} THEN "ts" ELSE Null
        e == IF error # Null /\ error # "" THEN error ELSE old.error_message
    IN PutItem(tbl, t, j,
               [old EXCEPT !.status = status, !.completed_at = c,
                           !.error_message = e])

\* Variant of CancelCondition that also lets a RUNNING job through.
CancelCondition_NotTerminal(tbl, t, j) ==
    (<<t, j>> \in DOMAIN tbl) /\ tbl[<<t, j>>].status \in {PENDING, RUNNING}

\* JobAPI.cancel_job's update_item: ConditionExpression "#s = :pending".
\* A missing item fails the condition.
CancelCondition(tbl, t, j) ==
    HasItem(tbl, t, j) /\ tbl[Key(t, j)].status = PENDING

CancelUpdate(tbl, t, j) ==
    [tbl EXCEPT ![Key(t, j)].status = CANCELLED]

\* ------------------------------------------------------------ environment
\* An external call that fails, or a timestamp that repeats, is an event of
\* the environment; a behaviour holds at most MaxFaults of them.
MayFail(ok) == ok \/ faults < MaxFaults

Count(ok) == IF ok THEN faults ELSE faults + 1

\* ------------------------------------------------------------ audit table
\* AuditService.log_action.  The table key is (tenant_id, timestamp) and the
\* write is put_item inside try/except, so one call has three outcomes:
\*   "new"   the timestamp is later than every stored one: a new entry
\*   "same"  the timestamp equals that of the tenant's newest entry: put_item
\*           replaces that entry
\*   "fail"  put_item raised; the exception is printed and swallowed
AuditHow == {"new", "same", "fail"}

Entry(action, resource) == [action |-> action, resource |-> resource]

LogAction(aud, t, action, resource, how) ==
    CASE how = "new" -> [aud EXCEPT ![t] = Append(@, Entry(action, resource))]
      [] how = "same" /\ Len(aud[t]) > 0 ->
            [aud EXCEPT ![t] = [@ EXCEPT ![Len(@)] = Entry(action, resource)]]
      [] OTHER -> aud

CanLog(aud, t, how) ==
    /\ MayFail(how = "new")
    /\ how = "same" => Len(aud[t]) > 0

\* A query with ScanIndexForward=False: the sequence from its end
Reverse(seq) == [i \in 1..Len(seq) |-> seq[Len(seq) + 1 - i]]

\* Limit=limit: at most the first limit items
Take(seq, limit) ==
    SubSeq(seq, 1, IF limit < Len(seq) THEN limit ELSE Len(seq))

\* AuditService.get_tenant_audit (audit.py 54-67): the tenant's entries by
\* descending timestamp, limit of them at most; [] when the query raises
GetTenantAudit(aud, t, limit, queryOk) ==
    IF queryOk THEN Take(Reverse(aud[t]), limit) ELSE <<>>

\* ------------------------------------------------------------ handler
\* handler's except branch: {"statusCode": 500, "body": {"error": str(e)}}
ErrorResp(op, exc) ==
    [op |-> op, statusCode |-> 500, error |-> exc, tenant_id |-> Null,
     job_id |-> 0, status |-> Null]

\* 201 and 200 with a job item as body
ItemResp(op, code, t, j, status) ==
    [op |-> op, statusCode |-> code, error |-> Null, tenant_id |-> t,
     job_id |-> j, status |-> status]

\* DELETE's 200 with body {"status": "cancelled"}
CancelledResp ==
    [op |-> "cancel", statusCode |-> 200, error |-> Null, tenant_id |-> Null,
     job_id |-> 0, status |-> CANCELLED]

\* GET's 404 with body {"error": "Not found"}
NotFoundResp ==
    [op |-> "get", statusCode |-> 404, error |-> "Not found",
     tenant_id |-> Null, job_id |-> 0, status |-> Null]

NoReq == [tenant_id |-> Null, job_id |-> 0]
NoResp ==
    [op |-> Null, statusCode |-> 0, error |-> Null, tenant_id |-> Null,
     job_id |-> 0, status |-> Null]

\* resp shows a response in the state the returning step leads to; every
\* other step clears it.
\* A step that is not a client's.
Quiet ==
    /\ UNCHANGED <<apiPc, apiReq>>
    /\ resp' = NoResp
    /\ UNCHANGED <<authVars, otherVars>>

\* The handler answers with r: the client may call again.
Return(c, r) ==
    /\ resp' = r
    /\ apiPc' = [apiPc EXCEPT ![c] = "idle"]
    /\ apiReq' = [apiReq EXCEPT ![c] = NoReq]
    /\ UNCHANGED <<authVars, otherVars>>

\* The handler moves on to its next external call.
Goto(c, pc, t, j) ==
    /\ apiPc' = [apiPc EXCEPT ![c] = pc]
    /\ apiReq' = [apiReq EXCEPT ![c] = [tenant_id |-> t, job_id |-> j]]
    /\ resp' = NoResp
    /\ UNCHANGED <<authVars, otherVars>>

\* ------------------------------------------------------------ submit_job
\* Variant of Validate: Job.command without min_length=1.
Validate_NoMinLength(agent, command) ==
    CASE agent = Missing -> "KeyError"
      [] agent \notin AgentType -> "ValueError"
      [] command = Missing -> "KeyError"
      [] OTHER -> "ok"

\* jobs.py lines 20-27: AgentType(data["agent"]), data["command"], Job(...)
Validate(agent, command) ==
    CASE agent = Missing -> "KeyError"
      [] agent \notin AgentType -> "ValueError"
      [] command = Missing -> "KeyError"
      [] command = "" -> "ValidationError"
      [] OTHER -> "ok"

\* Variant of SubmitPut: a failed put_item is swallowed and submit_job goes
\* on to publish.
SubmitPut_SwallowsPutError(c, t, agent, command, putOk) ==
    /\ apiPc[c] = "idle"
    /\ Validate(agent, command) = "ok"
    /\ MayFail(putOk)
    /\ faults' = Count(putOk)
    /\ nextId <= MaxJobs
    /\ Goto(c, "send", t, nextId)
    /\ table' = IF putOk THEN PutItem(table, t, nextId, NewItem(command))
                ELSE table
    /\ nextId' = nextId + 1
    /\ UNCHANGED <<queue, audit, queue_url, wVars, receives, sent, runs>>

\* POST: ulid.new(), validation and table.put_item (jobs.py 19-31).  An
\* identifier is counted once an item is stored under it.
SubmitPut(c, t, agent, command, putOk) ==
    /\ apiPc[c] = "idle"
    /\ LET v == Validate(agent, command) IN
        IF v # "ok"
        THEN /\ putOk
             /\ Return(c, ErrorResp("submit", v))
             /\ UNCHANGED <<table, nextId, faults>>
        ELSE /\ MayFail(putOk)
             /\ faults' = Count(putOk)
             /\ IF putOk
                THEN /\ nextId <= MaxJobs
                     /\ Goto(c, "send", t, nextId)
                     /\ table' = PutItem(table, t, nextId, NewItem(command))
                     /\ nextId' = nextId + 1
                ELSE /\ Return(c, ErrorResp("submit", "StorageError"))
                     /\ UNCHANGED <<table, nextId>>
    /\ UNCHANGED <<queue, audit, queue_url, wVars, receives, sent, runs>>

\* Variant of SubmitReturn: a failed audit write leaves submit_job through
\* the handler's except branch.
SubmitReturn_AuditFailureRaises(c, how) ==
    LET r == apiReq[c] IN
    /\ CanLog(audit, r.tenant_id, how)
    /\ audit' = LogAction(audit, r.tenant_id, "SUBMIT_JOB", r.job_id, how)
    /\ Return(c, IF how = "fail" THEN ErrorResp("submit", "AuditError")
                 ELSE ItemResp("submit", 201, r.tenant_id, r.job_id, PENDING))

\* audit.log_action(tenant_id, "SUBMIT_JOB", job_id) and return item; the
\* handler answers 201 (jobs.py 45-46, 90-91)
SubmitReturn(c, how) ==
    LET r == apiReq[c] IN
    /\ CanLog(audit, r.tenant_id, how)
    /\ audit' = LogAction(audit, r.tenant_id, "SUBMIT_JOB", r.job_id, how)
    /\ Return(c, ItemResp("submit", 201, r.tenant_id, r.job_id, PENDING))

\* Variant of SubmitSend: a failed send_message deletes the stored job.
SubmitSend_RollsBack(c, sendOk, how) ==
    /\ apiPc[c] = "send"
    /\ LET r == apiReq[c] IN
        IF queue_url = Null
        THEN /\ sendOk
             /\ SubmitReturn(c, how)
             /\ faults' = Count(how = "new")
             /\ UNCHANGED <<queue, sent, table>>
        ELSE IF sendOk
        THEN /\ queue' = queue \cup
                    {[tenant_id |-> r.tenant_id, job_id |-> r.job_id,
                      body |-> "json", visible |-> TRUE, recv |-> 0]}
             /\ sent' = [sent EXCEPT ![r.job_id] = @ + 1]
             /\ SubmitReturn(c, how)
             /\ faults' = Count(how = "new")
             /\ UNCHANGED table
        ELSE /\ MayFail(FALSE)
             /\ how = "new"
             /\ faults' = Count(FALSE)
             /\ Return(c, ErrorResp("submit", "QueueError"))
             /\ table' = [k \in DOMAIN table \ {Key(r.tenant_id, r.job_id)}
                            |-> table[k]]
             /\ UNCHANGED <<queue, sent, audit>>
    /\ UNCHANGED <<queue_url, nextId, wVars, receives, runs>>

\* sqs.send_message under "if self.queue_url" (jobs.py 34-43), then the
\* audit write and the return.  log_action touches the audit table only, so
\* it is taken in the same step as the call before it.
SubmitSend(c, sendOk, how) ==
    /\ apiPc[c] = "send"
    /\ LET r == apiReq[c] IN
        IF queue_url = Null
        THEN /\ sendOk
             /\ SubmitReturn(c, how)
             /\ faults' = Count(how = "new")
             /\ UNCHANGED <<queue, sent>>
        ELSE IF sendOk
        THEN /\ queue' = queue \cup
                    {[tenant_id |-> r.tenant_id, job_id |-> r.job_id,
                      body |-> "json", visible |-> TRUE, recv |-> 0]}
             /\ sent' = [sent EXCEPT ![r.job_id] = @ + 1]
             /\ SubmitReturn(c, how)
             /\ faults' = Count(how = "new")
        ELSE /\ MayFail(FALSE)
             /\ how = "new"
             /\ faults' = Count(FALSE)
             /\ Return(c, ErrorResp("submit", "QueueError"))
             /\ UNCHANGED <<queue, sent, audit>>
    /\ UNCHANGED <<table, queue_url, nextId, wVars, receives, runs>>

\* ------------------------------------------------------------ get_job
\* GET with a job id (jobs.py 48-53, 93-98)
GetJob(c, t, j) ==
    /\ apiPc[c] = "idle"
    /\ Return(c, IF HasItem(table, t, j)
                 THEN ItemResp("get", 200, t, j, GetItem(table, t, j).status)
                 ELSE NotFoundResp)
    /\ UNCHANGED <<table, queue, audit, queue_url, nextId, wVars,
                   receives, sent, runs, faults>>

\* ------------------------------------------------------------ list_jobs
\* The job ids of S from the highest down: the order of a query on the
\* sort key job_id with ScanIndexForward=False
RECURSIVE Descending(_)
Descending(S) ==
    IF S = {} THEN <<>>
    ELSE LET top == CHOOSE x \in S : \A y \in S : y <= x
         IN <<top>> \o Descending(S \ {top})

\* An item of a query's result
Listed(tbl, t, j) ==
    [tenant_id |-> t, job_id |-> j, status |-> tbl[Key(t, j)].status]

\* Variant of ListJobs with ScanIndexForward=True: oldest first.
ListJobs_Ascending(tbl, t, limit) ==
    LET ids == Reverse(Descending({k[2] : k \in {x \in DOMAIN tbl : x[1] = t}}))
    IN Take([i \in 1..Len(ids) |-> Listed(tbl, t, ids[i])], limit)

\* JobAPI.list_jobs (jobs.py 55-61): query on tenant_id,
\* ScanIndexForward=False, Limit=limit; the Items of the one page read
ListJobs(tbl, t, limit) ==
    LET ids == Descending({k[2] : k \in {x \in DOMAIN tbl : x[1] = t}})
    IN Take([i \in 1..Len(ids) |-> Listed(tbl, t, ids[i])], limit)

NoListing == [tenant_id |-> Null, limit |-> 0, items |-> <<>>]

\* limit arguments: two small ones and the default
Limits == {1, 2, DefaultLimit}

\* One call of list_jobs; it reads the jobs table and writes nothing
ListCall(t, limit) ==
    /\ listOut' = [tenant_id |-> t, limit |-> limit,
                   items |-> ListJobs(table, t, limit)]
    /\ UNCHANGED <<jobVars, authVars, audit, faults, running, secVars,
                   hostVars>>

\* ------------------------------------------------------------ cancel_job
\* DELETE: the conditional update_item (jobs.py 65-71).  A failed condition
\* raises ConditionalCheckFailedException, any other failure of the store
\* raises too; both leave cancel_job through the handler's except branch
\* (jobs.py 111-113).  Otherwise audit.log_action(tenant_id, "CANCEL_JOB",
\* job_id), return {"status": "cancelled"}, and the handler answers 200
\* (jobs.py 72-73, 106-107).
CancelJob(c, t, j, storeOk, how) ==
    /\ apiPc[c] = "idle"
    /\ IF ~storeOk
       THEN /\ MayFail(FALSE)
            /\ how = "new"
            /\ faults' = Count(FALSE)
            /\ Return(c, ErrorResp("cancel", "StorageError"))
            /\ UNCHANGED <<table, audit>>
       ELSE IF ~CancelCondition(table, t, j)
       THEN /\ how = "new"
            /\ Return(c, ErrorResp("cancel",
                                   "ConditionalCheckFailedException"))
            /\ UNCHANGED <<table, audit, faults>>
       ELSE /\ table' = CancelUpdate(table, t, j)
            /\ CanLog(audit, t, how)
            /\ audit' = LogAction(audit, t, "CANCEL_JOB", j, how)
            /\ faults' = Count(how = "new")
            /\ Return(c, CancelledResp)
    /\ UNCHANGED <<queue, queue_url, nextId, wVars, receives, sent, runs>>

\* ------------------------------------------------------------ queue
NoMsg == [tenant_id |-> Null, job_id |-> 0, handle |-> 0, prior |-> Null]

\* The lease ends: the message becomes visible again.
VisibilityTimeout(m) ==
    /\ m \in queue
    /\ ~m.visible
    /\ queue' = (queue \ {m}) \cup {[m EXCEPT !.visible = TRUE]}
    /\ Quiet
    /\ UNCHANGED <<table, audit, queue_url, nextId, wVars,
                   receives, sent, runs, faults>>

\* Something other than submit_job puts a message on the queue whose body
\* is not JSON.  It is an event of the environment.
ForeignSend ==
    /\ queue_url # Null
    /\ MayFail(FALSE)
    /\ faults' = Count(FALSE)
    /\ queue' = queue \cup
            {[tenant_id |-> Null, job_id |-> 0, body |-> "garbage",
              visible |-> TRUE, recv |-> 0]}
    /\ Quiet
    /\ UNCHANGED <<table, audit, queue_url, nextId, wVars,
                   receives, sent, runs>>

\* Variant of Receive: a message whose body does not decode is dropped.
Receive_DropsUndecodable(w, m) ==
    /\ wPc[w] = "idle"
    /\ running[w]
    /\ m \in queue
    /\ m.visible
    /\ receives < MaxReceives
    /\ receives' = receives + 1
    /\ IF m.body = "json"
       THEN /\ queue' = (queue \ {m}) \cup
                    {[m EXCEPT !.visible = FALSE, !.recv = @ + 1]}
            /\ wMsg' = [wMsg EXCEPT ![w] =
                    [tenant_id |-> m.tenant_id, job_id |-> m.job_id,
                     handle |-> m.recv + 1, prior |-> Null]]
            /\ wPc' = [wPc EXCEPT ![w] = "leased"]
       ELSE /\ queue' = queue \ {m}
            /\ UNCHANGED <<wMsg, wPc>>
    /\ Quiet
    /\ UNCHANGED <<table, audit, queue_url, nextId, wOut,
                   sent, runs, faults>>

\* JobPoller.start: "while self.running", and
\* receive_message(MaxNumberOfMessages=1) returned m (main.py 25-36); process_message decodes Body and reads ReceiptHandle
\* (43-44).  json.loads is outside process_message's try block: when it
\* raises, start's except branch prints, sleeps and polls again (38-40),
\* and the message stays on the queue, leased.
Receive(w, m) ==
    /\ wPc[w] = "idle"
    /\ running[w]
    /\ m \in queue
    /\ m.visible
    /\ receives < MaxReceives
    /\ receives' = receives + 1
    /\ queue' = (queue \ {m}) \cup
            {[m EXCEPT !.visible = FALSE, !.recv = @ + 1]}
    /\ IF m.body = "json"
       THEN /\ wMsg' = [wMsg EXCEPT ![w] =
                    [tenant_id |-> m.tenant_id, job_id |-> m.job_id,
                     handle |-> m.recv + 1, prior |-> Null]]
            /\ wPc' = [wPc EXCEPT ![w] = "leased"]
       ELSE UNCHANGED <<wMsg, wPc>>
    /\ Quiet
    /\ UNCHANGED <<table, audit, queue_url, nextId, wOut,
                   sent, runs, faults>>

\* Variant of ReceiveFails without the try block of start: the exception
\* leaves the loop.
ReceiveFails_EndsLoop(w) ==
    /\ wPc[w] = "idle"
    /\ running[w]
    /\ MayFail(FALSE)
    /\ faults' = Count(FALSE)
    /\ wPc' = [wPc EXCEPT ![w] = "exited"]
    /\ Quiet
    /\ UNCHANGED <<table, queue, audit, queue_url, nextId, wMsg, wOut,
                   receives, sent, runs>>

\* JobPoller.start: receive_message raises; the except branch prints,
\* sleeps five seconds and the loop goes round (main.py 26-40).
ReceiveFails(w) ==
    /\ wPc[w] = "idle"
    /\ running[w]
    /\ MayFail(FALSE)
    /\ faults' = Count(FALSE)
    /\ Quiet
    /\ UNCHANGED <<table, queue, audit, queue_url, nextId, wVars,
                   receives, sent, runs>>

\* process_message is over: the poller is back in its loop.
Release(w) ==
    /\ wPc' = [wPc EXCEPT ![w] = "idle"]
    /\ wMsg' = [wMsg EXCEPT ![w] = NoMsg]
    /\ wOut' = [wOut EXCEPT ![w] = Null]

\* JobPoller.stop (main.py 19-21), the handler of SIGTERM and SIGINT: it
\* runs between two steps of the poller, wherever the poller is
Stop(w) ==
    /\ running[w]
    /\ running' = [running EXCEPT ![w] = FALSE]
    /\ resp' = NoResp
    /\ UNCHANGED <<table, queue, audit, queue_url, nextId, apiPc, apiReq,
                   wVars, receives, sent, runs, faults, authVars, listOut,
                   secVars, hostVars>>

\* JobPoller.start returns: "while self.running" is read with the flag
\* down (main.py 25)
Exit(w) ==
    /\ wPc[w] = "idle"
    /\ ~running[w]
    /\ wPc' = [wPc EXCEPT ![w] = "exited"]
    /\ resp' = NoResp
    /\ UNCHANGED <<table, queue, audit, queue_url, nextId, apiPc, apiReq,
                   wMsg, wOut, receives, sent, runs, faults, authVars,
                   otherVars>>

\* ------------------------------------------------------------ Worker.execute
\* A step of the worker on its host: as Quiet, but for hostVars.
QuietOnHost ==
    /\ UNCHANGED <<apiPc, apiReq>>
    /\ resp' = NoResp
    /\ UNCHANGED <<authVars, listOut, running, secVars>>

\* workspace_dir = f"/tmp/outpost/workspaces/{tenant_id}/{job_id}"
\* (executor.py 47): a fixed path of the host, the same for every consumer
\* process that runs on it
WorkspaceDir(t, j) == <<t, j>>

\* os.makedirs(workspace_dir, exist_ok=True) (executor.py 48): a directory
\* that is not there is created empty; one that is there is left as it is,
\* with its files.
MakeDirs(ws, t, j) ==
    [d \in DOMAIN ws \cup {WorkspaceDir(t, j)} |->
        IF d \in DOMAIN ws THEN ws[d] ELSE {}]

\* The process that the execution under way at worker w spawns: one per
\* delivery of the job's message
ChildOf(w) ==
    [worker |-> w, tenant_id |-> wMsg[w].tenant_id,
     job_id |-> wMsg[w].job_id, handle |-> wMsg[w].handle]

\* The outcomes in which communicate returned: the process has exited
Exited == {"exit0", "exit1", "exit1quiet"}

\* A running command writes a file into its working directory, which is
\* the workspace directory (cwd=workspace_dir, executor.py 61).
ChildWrites(p) ==
    /\ p \in children
    /\ p.handle \notin workspace[WorkspaceDir(p.tenant_id, p.job_id)]
    /\ workspace' = [workspace EXCEPT
            ![WorkspaceDir(p.tenant_id, p.job_id)] = @ \cup {p.handle}]
    /\ QuietOnHost
    /\ UNCHANGED <<table, queue, audit, queue_url, nextId, wVars,
                   receives, sent, runs, faults, children>>

\* A command that nobody waits for any more comes to its end by itself.
ChildExits(p) ==
    /\ p \in children
    /\ \A w \in Workers : ~(wPc[w] = "ran" /\ ChildOf(w) = p)
    /\ children' = children \ {p}
    /\ QuietOnHost
    /\ UNCHANGED <<table, queue, audit, queue_url, nextId, wVars,
                   receives, sent, runs, faults, workspace>>

\* update_job_status(tenant_id, job_id, RUNNING) and
\* audit.log_action(tenant_id, "START_JOB", job_id) (executor.py 43-44)
ExecStart(w, how) ==
    /\ wPc[w] = "leased"
    /\ table' = UpdateJobStatus(table, wMsg[w].tenant_id, wMsg[w].job_id,
                                RUNNING, Null)
    /\ CanLog(audit, wMsg[w].tenant_id, how)
    /\ audit' = LogAction(audit, wMsg[w].tenant_id, "START_JOB",
                          wMsg[w].job_id, how)
    /\ faults' = Count(how = "new")
    /\ wMsg' = [wMsg EXCEPT ![w].prior =
                    GetItem(table, wMsg[w].tenant_id, wMsg[w].job_id).status]
    /\ wPc' = [wPc EXCEPT ![w] = "started"]
    /\ Quiet
    /\ UNCHANGED <<queue, queue_url, nextId, wOut,
                   receives, sent, runs>>

\* os.makedirs, which is outside the try block, then subprocess.Popen
\* (executor.py 47-65).  When makedirs raises, execute raises and
\* process_message's except branch keeps the message (main.py 52-54).
\* When Popen raises, the command never starts.  makedirs may raise on
\* every delivery (a workspace root that cannot be written stays so); its
\* failures are bounded by the deliveries, not by MaxFaults.
ExecRun(w, mkOk, spawnOk) ==
    /\ wPc[w] = "started"
    /\ MayFail(spawnOk)
    /\ faults' = Count(spawnOk)
    /\ IF ~mkOk
       THEN /\ spawnOk
            /\ Release(w)
            /\ UNCHANGED <<runs, hostVars>>
       ELSE /\ wPc' = [wPc EXCEPT ![w] = "ran"]
            /\ wOut' = [wOut EXCEPT ![w] =
                            IF spawnOk THEN "child" ELSE "spawn"]
            /\ runs' = [runs EXCEPT ![wMsg[w].job_id] =
                            IF spawnOk THEN @ + 1 ELSE @]
            /\ workspace' = MakeDirs(workspace, wMsg[w].tenant_id,
                                     wMsg[w].job_id)
            /\ children' = IF spawnOk THEN children \cup {ChildOf(w)}
                           ELSE children
            /\ UNCHANGED wMsg
    /\ QuietOnHost
    /\ UNCHANGED <<table, queue, audit, queue_url, nextId,
                   receives, sent>>

\* The status, the error text and the audit action execute writes for an
\* outcome (executor.py 68-80)
\* Variant of FinalStatus: a timeout leaves the job RUNNING.
FinalStatus_TimeoutStaysRunning(o) ==
    IF o = "exit0" THEN SUCCESS ELSE IF o = "timeout" THEN RUNNING ELSE FAILED

FinalStatus(o) == IF o = "exit0" THEN SUCCESS ELSE FAILED

FinalError(o) ==
    CASE o = "exit0" -> Null
      [] o = "exit1" -> "boom"
      [] o = "exit1quiet" -> ""
      [] o = "timeout" -> "Timeout expired"
      [] OTHER -> "spawn failed"

\* Variant of FinalAction: a timeout is audited as JOB_FAILED.
FinalAction_TimeoutAsFailed(o) ==
    CASE o = "exit0" -> "JOB_SUCCESS"
      [] o \in {"exit1", "exit1quiet", "timeout"} -> "JOB_FAILED"
      [] OTHER -> "JOB_ERROR"

FinalAction(o) ==
    CASE o = "exit0" -> "JOB_SUCCESS"
      [] o \in {"exit1", "exit1quiet"} -> "JOB_FAILED"
      [] o = "timeout" -> "JOB_TIMEOUT"
      [] OTHER -> "JOB_ERROR"

\* process.communicate(timeout=600) returns or raises, then
\* update_job_status(tenant_id, job_id, SUCCESS | FAILED, error=...) and
\* audit.log_action(tenant_id, "JOB_SUCCESS" | "JOB_FAILED" | ..., job_id)
ExecFinish(w, o, how) ==
    /\ wPc[w] = "ran"
    /\ o \in (IF wOut[w] = "spawn" THEN {"spawn"} ELSE ExitOutcomes)
    /\ table' = UpdateJobStatus(table, wMsg[w].tenant_id, wMsg[w].job_id,
                                FinalStatus(o), FinalError(o))
    /\ CanLog(audit, wMsg[w].tenant_id, how)
    /\ audit' = LogAction(audit, wMsg[w].tenant_id, FinalAction(o),
                          wMsg[w].job_id, how)
    /\ faults' = Count(how = "new")
    /\ wOut' = [wOut EXCEPT ![w] = Null]
    /\ wMsg' = [wMsg EXCEPT ![w].prior = Null]
    /\ wPc' = [wPc EXCEPT ![w] = "written"]
    /\ children' = IF o \in Exited THEN children \ {ChildOf(w)} ELSE children
    /\ UNCHANGED workspace
    /\ QuietOnHost
    /\ UNCHANGED <<queue, queue_url, nextId, receives, sent, runs>>

\* sqs.delete_message(ReceiptHandle=receipt_handle) (main.py 51).  SQS
\* deletes for the most recent receipt handle; for an older handle of a
\* message received again since, it may or may not delete.
DeleteMessage(w, del) ==
    /\ wPc[w] = "written"
    /\ LET ms == {m \in queue : m.tenant_id = wMsg[w].tenant_id /\
                                m.job_id = wMsg[w].job_id}
           fresh == {m \in ms : m.recv = wMsg[w].handle}
       IN /\ (~del => fresh = {} /\ ms # {})
          /\ queue' = IF del THEN queue \ ms ELSE queue
    /\ Release(w)
    /\ Quiet
    /\ UNCHANGED <<table, audit, queue_url, nextId, receives,
                   sent, runs, faults>>

\* ------------------------------------------------------------ credentials
\* A credential is a string; split() cuts it into words.  A word is its
\* leading characters (prefix) and the rest (body).
Word(prefix, body) == [prefix |-> prefix, body |-> body]

KeyWords ==
    {Word("op_live_", "a"), Word("op_test_", "b"), Word("sk_live_", "c")}

SchemeWords == {Word("Bearer", ""), Word("bearer", ""), Word("Basic", "")}

\* authorizationToken values: "<key>", "<scheme> <key>"
Tokens ==
    {<<k>> : k \in KeyWords} \cup
    {<<sc, k>> : sc \in SchemeWords, k \in KeyWords}

\* str.lower() on the first word
Lower(w) == IF w.prefix \in {"Bearer", "bearer"} THEN "bearer" ELSE w.prefix

\* handler (authorizer) lines 80-84: the key is the second word of
\* "Bearer <key>", and the whole token otherwise
ApiKeyOf(token) ==
    IF Len(token) = 2 /\ Lower(token[1]) = "bearer"
    THEN <<token[2]>>
    ELSE token

\* api_key.startswith("op_live_") or api_key.startswith("op_test_")
HasKeyPrefix(key) == key[1].prefix \in {"op_live_", "op_test_"}

\* hashlib.sha256(...).hexdigest(): one digest per string
Hash(key) == <<"sha256", key>>

\* ------------------------------------------------------------ tenants table
ACTIVE == "active"
SUSPENDED == "suspended"
DELETED == "deleted"

KeyIds == {"key_1", "key_2"}

Metadata(t) == <<t, "METADATA">>

\* sk = "KEY#" + key_id: one sort key per key id
KeySk(t, kid) == <<t, kid>>

\* An item of the tenants table; an attribute the item lacks is Null.
NoHash == <<>>

\* A list attribute is a sequence of strings; an item that lacks it has
\* NoList.
NoList == <<Null>>

NoItem ==
    [status |-> Null, api_key_hash |-> NoHash, key_hash |-> NoHash,
     revoked |-> Null, scopes |-> NoList]

\* scopes=["job:run"] (api_keys.py 26); the records of
\* tests/unit/test_authorizer.py carry this list or no scopes at all
ScopeLists == {<<"job:run">>, NoList}

\* Table.put_item on the tenants table
PutTenantItem(tbl, k, item) ==
    [x \in DOMAIN tbl \cup {k} |-> IF x = k THEN item ELSE tbl[x]]

\* Table.update_item without a condition: creates the item when the key is
\* new
OldItem(tbl, k) == IF k \in DOMAIN tbl THEN tbl[k] ELSE NoItem

\* One more tenant or key operation
Op == ops < MaxOps /\ ops' = ops + 1

\* Steps of tenants, keys and authorizer leave the jobs pipeline alone.
AuthOnly == UNCHANGED <<jobVars, otherVars>>

NoAuth ==
    [effect |-> Null, principalId |-> Null, tenant_id |-> Null,
     scopes |-> NoList]

\* TenantAPI.create_tenant: put_item of the METADATA item with status
\* active, then the audit write (tenants.py 16-33)
CreateTenant(t, how) ==
    /\ Op
    /\ Metadata(t) \notin DOMAIN tenantsTable
    /\ tenantsTable' = PutTenantItem(tenantsTable, Metadata(t),
                                     [NoItem EXCEPT !.status = ACTIVE])
    /\ CanLog(audit, t, how)
    /\ audit' = LogAction(audit, t, "CREATE_TENANT", t, how)
    /\ faults' = Count(how = "new")
    /\ authOut' = NoAuth
    /\ lookup' = "none"
    /\ AuthOnly

\* TenantAPI.delete_tenant: update_item SET status = deleted, no condition,
\* then the audit write (tenants.py 57-65)
DeleteTenant(t, how) ==
    /\ Op
    /\ tenantsTable' = PutTenantItem(tenantsTable, Metadata(t),
            [OldItem(tenantsTable, Metadata(t)) EXCEPT !.status = DELETED])
    /\ CanLog(audit, t, how)
    /\ audit' = LogAction(audit, t, "DELETE_TENANT", t, how)
    /\ faults' = Count(how = "new")
    /\ authOut' = NoAuth
    /\ lookup' = "none"
    /\ AuthOnly

\* A key record written with the digest under api_key_hash, the attribute
\* the index api_key-index is keyed by (as tests/unit/test_authorizer.py
\* stores its records).
ProvisionKey(t, kid, w, revoked, scopes) ==
    /\ Op
    /\ KeySk(t, kid) \notin DOMAIN tenantsTable
    /\ HasKeyPrefix(<<w>>)
    /\ tenantsTable' = PutTenantItem(tenantsTable, KeySk(t, kid),
            [NoItem EXCEPT !.api_key_hash = Hash(<<w>>),
                           !.revoked = IF revoked THEN "true" ELSE "false",
                           !.scopes = scopes])
    /\ authOut' = NoAuth
    /\ lookup' = "none"
    /\ AuthOnly
    /\ UNCHANGED <<audit, faults>>

\* Variant of GenerateKey that stores the raw key where the digest belongs.
GenerateKey_StoresRawKey(t, kid, w, how) ==
    /\ Op
    /\ KeySk(t, kid) \notin DOMAIN tenantsTable
    /\ w.prefix = "op_live_"
    /\ tenantsTable' = PutTenantItem(tenantsTable, KeySk(t, kid),
            [NoItem EXCEPT !.key_hash = <<w>>, !.revoked = "false",
                           !.scopes = <<"job:run">>])
    /\ CanLog(audit, t, how)
    /\ audit' = LogAction(audit, t, "GENERATE_KEY", kid, how)
    /\ faults' = Count(how = "new")
    /\ authOut' = NoAuth
    /\ lookup' = "none"
    /\ AuthOnly

\* APIKeyAPI.generate_key: the raw key is "op_live_" + token_hex; put_item
\* of APIKey(...).model_dump(), whose digest attribute is key_hash, then
\* the audit write (api_keys.py 17-43)
GenerateKey(t, kid, w, how) ==
    /\ Op
    /\ KeySk(t, kid) \notin DOMAIN tenantsTable
    /\ w.prefix = "op_live_"
    /\ tenantsTable' = PutTenantItem(tenantsTable, KeySk(t, kid),
            [NoItem EXCEPT !.key_hash = Hash(<<w>>), !.revoked = "false",
                           !.scopes = <<"job:run">>])
    /\ CanLog(audit, t, how)
    /\ audit' = LogAction(audit, t, "GENERATE_KEY", kid, how)
    /\ faults' = Count(how = "new")
    /\ authOut' = NoAuth
    /\ lookup' = "none"
    /\ AuthOnly

\* APIKeyAPI.revoke_key: update_item SET revoked = true, no condition, then
\* the audit write (api_keys.py 45-57)
RevokeKey(t, kid, how) ==
    /\ Op
    /\ tenantsTable' = PutTenantItem(tenantsTable, KeySk(t, kid),
            [OldItem(tenantsTable, KeySk(t, kid)) EXCEPT !.revoked = "true"])
    /\ CanLog(audit, t, how)
    /\ audit' = LogAction(audit, t, "REVOKE_KEY", kid, how)
    /\ faults' = Count(how = "new")
    /\ authOut' = NoAuth
    /\ lookup' = "none"
    /\ AuthOnly

\* ------------------------------------------------------------ authorizer
\* The query on api_key-index: the keys of the items whose api_key_hash is h.
\* The index is read as up to date with the table.
IndexQuery(tbl, h) == {k \in DOMAIN tbl : tbl[k].api_key_hash = h}

\* generate_policy called with effect Allow: the principal is the tenant of
\* the context, and the context is handed on (its key_name is left out of
\* the model)
Allow(ctx) ==
    [effect |-> "Allow", principalId |-> ctx.tenant_id,
     tenant_id |-> ctx.tenant_id, scopes |-> ctx.scopes]

\* generate_policy called with effect Deny: principal "anonymous", context {}
Deny ==
    [effect |-> "Deny", principalId |-> "anonymous", tenant_id |-> Null,
     scopes |-> NoList]

\* validate_key returning None
NoContext == [tenant_id |-> Null, scopes |-> NoList]

\* Variant of Context that hands on the stored scopes attribute as it is,
\* without the default list.
Context_NoDefault(tbl, first) ==
    [tenant_id |-> first[1], scopes |-> tbl[first].scopes]

\* The context validate_key builds from key_data:
\* key_data["tenant_id"], key_data.get("scopes", ["job:run"])
Context(tbl, first) ==
    [tenant_id |-> first[1],
     scopes |-> IF tbl[first].scopes = NoList THEN <<"job:run">>
                ELSE tbl[first].scopes]

\* Variant of ValidateKey that hands out the tenant of a revoked key too.
ValidateKey_IgnoresRevoked(tbl, key, lookupOk, first) ==
    IF ~HasKeyPrefix(key) THEN NoContext
    ELSE IF ~lookupOk THEN NoContext
    ELSE IF IndexQuery(tbl, Hash(key)) = {} THEN NoContext
    ELSE Context(tbl, first)

\* Variant of ValidateKey in which a query that raises is taken for a
\* query that found the record.
ValidateKey_FailsOpen(tbl, key, lookupOk, first) ==
    IF ~HasKeyPrefix(key) THEN NoContext
    ELSE IF first \notin DOMAIN tbl THEN NoContext
    ELSE IF lookupOk /\ tbl[first].revoked = "true" THEN NoContext
    ELSE Context(tbl, first)

\* Authorizer.validate_key (authorizer/handler.py 16-51): the context it
\* returns, NoContext for None.  first is items[0].
ValidateKey(tbl, key, lookupOk, first) ==
    IF ~HasKeyPrefix(key) THEN NoContext
    ELSE IF ~lookupOk THEN NoContext
    ELSE IF IndexQuery(tbl, Hash(key)) = {} THEN NoContext
    ELSE IF tbl[first].revoked = "true" THEN NoContext
    ELSE Context(tbl, first)

\* What items[0] can be for a token: any item the query returns; when it
\* returns none, items[0] is not read.
Firsts(tbl, token) ==
    IF IndexQuery(tbl, Hash(ApiKeyOf(token))) = {}
    THEN {Metadata(Null)}
    ELSE IndexQuery(tbl, Hash(ApiKeyOf(token)))

\* Variant of Decision whose Deny for a revoked key names the tenant of the
\* key as its principal.
Decision_NamesRevokedOwner(tbl, token, lookupOk, first) ==
    LET ctx == ValidateKey(tbl, ApiKeyOf(token), lookupOk, first)
    IN IF ctx # NoContext THEN Allow(ctx)
       ELSE IF /\ HasKeyPrefix(ApiKeyOf(token))
               /\ lookupOk
               /\ first \in DOMAIN tbl
            THEN [Deny EXCEPT !.principalId = first[1]]
            ELSE Deny

\* handler (authorizer/handler.py 79-103): the policy it returns for a
\* token that is not empty
Decision(tbl, token, lookupOk, first) ==
    LET ctx == ValidateKey(tbl, ApiKeyOf(token), lookupOk, first)
    IN IF ctx # NoContext THEN Allow(ctx) ELSE Deny

\* One invocation of the authorizer
Authorize(token, lookupOk, first) ==
    /\ MayFail(lookupOk)
    /\ HasKeyPrefix(ApiKeyOf(token)) \/ lookupOk
    /\ faults' = Count(lookupOk)
    /\ first \in Firsts(tenantsTable, token)
    /\ authOut' = Decision(tenantsTable, token, lookupOk, first)
    /\ lookup' = IF ~HasKeyPrefix(ApiKeyOf(token)) THEN "none"
                 ELSE IF lookupOk THEN "ok" ELSE "raised"
    /\ AuthOnly
    /\ UNCHANGED <<tenantsTable, ops, audit>>

\* ------------------------------------------------------------ secrets
KeyNames == {"prod-key"}

SecretValues == {"v1", "v2"}

\* SecretsManager._get_secret_name: one name per (tenant id, key name)
SecretName(t, k) == <<t, k>>

SecretNames == {SecretName(t, k) : t \in Tenants, k \in KeyNames}

NoSecretOut == [name |-> SecretName(Null, Null), value |-> Null, read |-> FALSE]

\* Steps of the secrets manager leave everything else alone.
SecretsOnly ==
    UNCHANGED <<jobVars, authVars, audit, listOut, running, hostVars>>

\* The clock moves on, a hundred seconds at a time
Tick ==
    /\ now + 100 <= MaxClock
    /\ now' = now + 100
    /\ UNCHANGED <<secrets, cache, secretOut, faults>>
    /\ SecretsOnly

\* SecretsManager.create_api_key_secret (manager.py 16-34): create_secret,
\* and put_secret_value when the name exists; the cache is not touched.
\* put_secret_value by anyone else has the same effect on the backend.
CreateSecret(t, k, v) ==
    /\ secrets[SecretName(t, k)] # v
    /\ secrets' = [secrets EXCEPT ![SecretName(t, k)] = v]
    /\ secretOut' = NoSecretOut
    /\ UNCHANGED <<cache, now, faults>>
    /\ SecretsOnly

\* Variant of Fresh with <= in place of <.
Fresh_Inclusive(c, n, time) ==
    n \in DOMAIN c /\ time - c[n].timestamp <= CacheTtl

\* "if secret_name in self._cache" and
\* "time.time() - entry['timestamp'] < self._cache_ttl" (manager.py 40-42)
Fresh(c, n, time) ==
    n \in DOMAIN c /\ time - c[n].timestamp < CacheTtl

\* self._cache[secret_name] = {"value": value, "timestamp": time.time()}
CachePut(c, n, v, time) ==
    [x \in DOMAIN c \cup {n} |->
        IF x = n THEN [value |-> v, timestamp |-> time] ELSE c[x]]

\* SecretsManager.get_api_key_secret (manager.py 36-56): the cached value
\* while the entry is fresh; otherwise get_secret_value, which raises when
\* the secret does not exist or the backend fails, and whose result is
\* cached and returned
GetSecret(t, k, readOk) ==
    LET n == SecretName(t, k) IN
    /\ IF Fresh(cache, n, now)
       THEN /\ readOk
            /\ secretOut' = [name |-> n, value |-> cache[n].value,
                             read |-> FALSE]
            /\ UNCHANGED <<cache, faults>>
       ELSE IF secrets[n] = Null
       THEN /\ readOk
            /\ secretOut' = [name |-> n, value |-> "ClientError",
                             read |-> TRUE]
            /\ UNCHANGED <<cache, faults>>
       ELSE IF readOk
       THEN /\ secretOut' = [name |-> n, value |-> secrets[n], read |-> TRUE]
            /\ cache' = CachePut(cache, n, secrets[n], now)
            /\ UNCHANGED faults
       ELSE /\ MayFail(FALSE)
            /\ faults' = Count(FALSE)
            /\ secretOut' = [name |-> n, value |-> "ClientError",
                             read |-> TRUE]
            /\ UNCHANGED cache
    /\ UNCHANGED <<secrets, now>>
    /\ SecretsOnly

\* SecretsManager.delete_api_key_secret (manager.py 58-70): delete_secret,
\* then the cache entry is removed; ResourceNotFoundException is swallowed
\* by the except branch, which leaves the cache alone; any other error is
\* raised again.
DeleteSecret(t, k, deleteOk) ==
    LET n == SecretName(t, k) IN
    /\ IF secrets[n] = Null
       THEN /\ deleteOk
            /\ UNCHANGED <<secrets, cache, faults>>
       ELSE IF deleteOk
       THEN /\ secrets' = [secrets EXCEPT ![n] = Null]
            /\ cache' = [x \in DOMAIN cache \ {n} |-> cache[x]]
            /\ UNCHANGED faults
       ELSE /\ MayFail(FALSE)
            /\ faults' = Count(FALSE)
            /\ UNCHANGED <<secrets, cache>>
    /\ secretOut' = [name |-> n,
                     value |-> IF secrets[n] # Null /\ ~deleteOk
                               THEN "ClientError" ELSE Null,
                     read |-> FALSE]
    /\ UNCHANGED now
    /\ SecretsOnly

\* The backend is shared: the secret is deleted there by another instance
\* or by hand, which is the case delete_api_key_secret meets as
\* ResourceNotFoundException (manager.py 68-70). The manager's cache and
\* the outcome of its last call are what they were.
BackendDelete(t, k) ==
    /\ secrets[SecretName(t, k)] # Null
    /\ secrets' = [secrets EXCEPT ![SecretName(t, k)] = Null]
    /\ UNCHANGED <<cache, now, secretOut, faults>>
    /\ SecretsOnly

SecretsNext ==
    \/ Tick
    \/ \E t \in Tenants, k \in KeyNames, v \in SecretValues :
          CreateSecret(t, k, v)
    \/ \E t \in Tenants, k \in KeyNames, ok \in BOOLEAN : GetSecret(t, k, ok)
    \/ \E t \in Tenants, k \in KeyNames, ok \in BOOLEAN :
          DeleteSecret(t, k, ok)
    \/ \E t \in Tenants, k \in KeyNames : BackendDelete(t, k)

\* ------------------------------------------------------------ specification
\* Everything but the jobs table as it is after construction
AtRest ==
    /\ queue = {}
    /\ audit = [t \in Tenants |-> <<>>]
    /\ queue_url \in {Null, "url"}
    /\ nextId = 1
    /\ apiPc = [c \in Clients |-> "idle"]
    /\ apiReq = [c \in Clients |-> NoReq]
    /\ resp = NoResp
    /\ wPc = [w \in Workers |-> "idle"]
    /\ wMsg = [w \in Workers |-> NoMsg]
    /\ wOut = [w \in Workers |-> Null]
    /\ receives = 0
    /\ sent = [j \in JobIds |-> 0]
    /\ runs = [j \in JobIds |-> 0]
    /\ faults = 0
    /\ tenantsTable = <<>>
    /\ authOut = NoAuth
    /\ lookup = "none"
    /\ ops = 0
    /\ listOut = NoListing
    /\ running = [w \in Workers |-> TRUE]
    /\ secrets = [n \in SecretNames |-> Null]
    /\ cache = <<>>
    /\ now = 0
    /\ secretOut = NoSecretOut
    /\ workspace = <<>>
    /\ children = {}

Init ==
    /\ table = <<>>
    /\ AtRest

Next ==
    \/ \E c \in Clients, t \in Tenants, b \in Bodies, ok \in BOOLEAN :
          SubmitPut(c, t, b.agent, b.command, ok)
    \/ \E c \in Clients, ok \in BOOLEAN, how \in AuditHow :
          SubmitSend(c, ok, how)
    \/ \E c \in Clients, t \in Tenants, j \in JobIds : GetJob(c, t, j)
    \/ \E c \in Clients, t \in Tenants, j \in JobIds, ok \in BOOLEAN,
          how \in AuditHow : CancelJob(c, t, j, ok, how)
    \/ ForeignSend
    \/ \E m \in queue : VisibilityTimeout(m)
    \/ \E w \in Workers, m \in queue : Receive(w, m)
    \/ \E w \in Workers, how \in AuditHow : ExecStart(w, how)
    \/ \E w \in Workers, mk \in BOOLEAN, sp \in BOOLEAN : ExecRun(w, mk, sp)
    \/ \E w \in Workers, o \in Outcomes, how \in AuditHow :
          ExecFinish(w, o, how)
    \/ \E w \in Workers, del \in BOOLEAN : DeleteMessage(w, del)

Spec == Init /\ [][Next]_vars

\* The pollers keep polling (main.py 25-40) and go through process_message
\* and execute without stopping, the queue makes an undeleted message
\* visible again, and a handler invocation under way returns.
Fairness ==
    /\ WF_vars(\E m \in queue : VisibilityTimeout(m))
    /\ \A w \in Workers :
          /\ WF_vars(\E m \in queue : Receive(w, m))
          /\ WF_vars(\E how \in AuditHow : ExecStart(w, how))
          /\ WF_vars(\E mk \in BOOLEAN, sp \in BOOLEAN : ExecRun(w, mk, sp))
          /\ WF_vars(\E o \in Outcomes, how \in AuditHow :
                        ExecFinish(w, o, how))
          /\ WF_vars(\E del \in BOOLEAN : DeleteMessage(w, del))
    /\ \A c \in Clients :
          WF_vars(\E ok \in BOOLEAN, how \in AuditHow : SubmitSend(c, ok, how))

FairSpec == Init /\ [][Next]_vars /\ Fairness

\* The state after construction with JOBS_QUEUE_URL set: the start of the
\* specifications below.
\* Tenants, keys and the authorizer, with the jobs pipeline at rest
AuthInit == Init /\ queue_url = "url"

AuthNext ==
    \/ \E t \in Tenants, how \in AuditHow : CreateTenant(t, how)
    \/ \E t \in Tenants, how \in AuditHow : DeleteTenant(t, how)
    \/ \E t \in Tenants, kid \in KeyIds, w \in KeyWords, r \in BOOLEAN,
          sc \in ScopeLists : ProvisionKey(t, kid, w, r, sc)
    \/ \E t \in Tenants, kid \in KeyIds, w \in KeyWords, how \in AuditHow :
          GenerateKey(t, kid, w, how)
    \/ \E t \in Tenants, kid \in KeyIds, how \in AuditHow :
          RevokeKey(t, kid, how)
    \/ \E token \in Tokens, ok \in BOOLEAN,
          first \in DOMAIN tenantsTable \cup {Metadata(Null)} :
          Authorize(token, ok, first)

AuthSpec == AuthInit /\ [][AuthNext]_vars

\* ------------------------------------------------------------ jobs handler
\* The X-Tenant-ID header of a request: a tenant id or no header
Headers == Tenants \cup {Null}

\* requestContext.authorizer.tenant_id of the event the jobs handler gets:
\* the context of the authorizer's Allow on a route behind the authorizer,
\* nothing on a route without one (jobs.py 78-79, 84)
AuthorizerContexts ==
    {Null} \cup (IF authOut.effect = "Allow" THEN {authOut.tenant_id} ELSE {})

\* handler (jobs.py 79-85): the authorizer context's tenant_id and, when
\* there is none, the X-Tenant-ID header
TenantId(ctx, header) == IF ctx # Null THEN ctx ELSE header

\* The handler's answer when the request has no tenant id at all
NoTenant(c, op, exc) ==
    /\ apiPc[c] = "idle"
    /\ Return(c, ErrorResp(op, exc))
    /\ UNCHANGED <<table, queue, audit, queue_url, nextId, wVars, receives,
                   sent, runs, faults>>

\* handler, POST (jobs.py 88-91): submit_job under the tenant id of the
\* event.  Job(tenant_id=None, ...) does not validate.
HandlerPost(c, ctx, header, agent, command, putOk) ==
    /\ ctx \in AuthorizerContexts
    /\ IF TenantId(ctx, header) = Null
       THEN /\ putOk
            /\ NoTenant(c, "submit",
                        IF Validate(agent, command) \in {"KeyError", "ValueError"}
                        THEN Validate(agent, command) ELSE "ValidationError")
       ELSE SubmitPut(c, TenantId(ctx, header), agent, command, putOk)

\* handler, DELETE with a job id (jobs.py 103-107): cancel_job under the
\* tenant id of the event.  update_item refuses a key without tenant_id.
HandlerDelete(c, ctx, header, j, storeOk, how) ==
    /\ ctx \in AuthorizerContexts
    /\ IF TenantId(ctx, header) = Null
       THEN /\ storeOk
            /\ how = "new"
            /\ NoTenant(c, "cancel", "ValidationException")
       ELSE CancelJob(c, TenantId(ctx, header), j, storeOk, how)

\* authorizationToken values of the form "Bearer <key>"
BearerTokens == {<<Word("Bearer", ""), k>> : k \in KeyWords}

\* The authorizer and the jobs handler together, with the workers at rest;
\* one key per tenant and "Bearer <key>" tokens
GateNext ==
    \/ \E t \in Tenants, w \in KeyWords, r \in BOOLEAN :
          ProvisionKey(t, "key_1", w, r, <<"job:run">>)
    \/ \E token \in BearerTokens, ok \in BOOLEAN,
          first \in DOMAIN tenantsTable \cup {Metadata(Null)} :
          Authorize(token, ok, first)
    \/ \E c \in Clients, ctx \in Headers, h \in Headers, b \in Bodies,
          ok \in BOOLEAN : HandlerPost(c, ctx, h, b.agent, b.command, ok)
    \/ \E c \in Clients, ok \in BOOLEAN, how \in AuditHow :
          SubmitSend(c, ok, how)
    \/ \E c \in Clients, ctx \in Headers, h \in Headers, j \in JobIds,
          ok \in BOOLEAN, how \in AuditHow :
          HandlerDelete(c, ctx, h, j, ok, how)

GateSpec == AuthInit /\ [][GateNext]_vars

\* list_jobs called on jobs tables that hold up to MaxListed jobs of each
\* tenant, all submitted and not yet received
StoredTables ==
    {[k \in ks |-> NewItem("ls")] : ks \in SUBSET (Tenants \X (1..MaxListed))}

ListInit ==
    /\ table \in StoredTables
    /\ AtRest
    /\ queue_url = "url"

ListNext == \E t \in Tenants, limit \in Limits : ListCall(t, limit)

ListSpec == ListInit /\ [][ListNext]_vars

\* get_job, list_jobs and cancel_job called by either tenant, with any job
\* id, on jobs tables that hold jobs of both
IsolationNext ==
    \/ \E c \in Clients, t \in Tenants, j \in 1..MaxListed : GetJob(c, t, j)
    \/ \E t \in Tenants, limit \in Limits : ListCall(t, limit)
    \/ \E c \in Clients, t \in Tenants, j \in 1..MaxListed, ok \in BOOLEAN,
          how \in AuditHow : CancelJob(c, t, j, ok, how)

\* ulid.new() (jobs.py 19): no two jobs carry the same id
IsolationInit ==
    /\ ListInit
    /\ \A k1, k2 \in DOMAIN table : k1[2] = k2[2] => k1 = k2

IsolationSpec == IsolationInit /\ [][IsolationNext]_vars

\* Submission and the pollers, with stop signals
PollerNext ==
    \/ \E c \in Clients, t \in Tenants, ok \in BOOLEAN :
          SubmitPut(c, t, "claude", "ls", ok)
    \/ \E c \in Clients, ok \in BOOLEAN, how \in AuditHow :
          SubmitSend(c, ok, how)
    \/ \E m \in queue : VisibilityTimeout(m)
    \/ \E w \in Workers, m \in queue : Receive(w, m)
    \/ \E w \in Workers, how \in AuditHow : ExecStart(w, how)
    \/ \E w \in Workers, mk \in BOOLEAN, sp \in BOOLEAN : ExecRun(w, mk, sp)
    \/ \E w \in Workers, o \in Outcomes, how \in AuditHow :
          ExecFinish(w, o, how)
    \/ \E w \in Workers, del \in BOOLEAN : DeleteMessage(w, del)
    \/ \E w \in Workers : Stop(w)
    \/ \E w \in Workers : Exit(w)

\* As Fairness, and a poller whose flag is down leaves its loop; nothing
\* obliges a stop signal to arrive.
PollerFairness ==
    /\ Fairness
    /\ \A w \in Workers : WF_vars(Exit(w))

PollerSpec == Init /\ [][PollerNext]_vars /\ PollerFairness

\* The poll loop with everything that can raise in it: receive_message,
\* the decoding of a body that is not JSON, and the Executor
LoopNext ==
    \/ PollerNext
    \/ ForeignSend
    \/ \E w \in Workers : ReceiveFails(w)

LoopSpec == AuthInit /\ [][LoopNext]_vars

\* Submission, the pollers and the commands they run on the worker's host
HostNext ==
    \/ \E c \in Clients, t \in Tenants, ok \in BOOLEAN :
          SubmitPut(c, t, "claude", "ls", ok)
    \/ \E c \in Clients, ok \in BOOLEAN, how \in AuditHow :
          SubmitSend(c, ok, how)
    \/ \E m \in queue : VisibilityTimeout(m)
    \/ \E w \in Workers, m \in queue : Receive(w, m)
    \/ \E w \in Workers, how \in AuditHow : ExecStart(w, how)
    \/ \E w \in Workers, mk \in BOOLEAN, sp \in BOOLEAN : ExecRun(w, mk, sp)
    \/ \E w \in Workers, o \in Outcomes, how \in AuditHow :
          ExecFinish(w, o, how)
    \/ \E w \in Workers, del \in BOOLEAN : DeleteMessage(w, del)
    \/ \E p \in children : ChildWrites(p)
    \/ \E p \in children : ChildExits(p)

HostSpec == AuthInit /\ [][HostNext]_vars

\* One SecretsManager and its backend
SecretsSpec == AuthInit /\ [][SecretsNext]_vars

\* ------------------------------------------------------------ properties
StatusOf(tbl, t, j) == GetItem(tbl, t, j).status

\* The edges of the lifecycle diagram
DiagramEdges ==
    {<<PENDING, RUNNING>>, <<PENDING, CANCELLED>>,
     <<RUNNING, SUCCESS>>, <<RUNNING, FAILED>>}

\* C1: the stored status of a job changes only along the edges
\* PENDING->RUNNING, PENDING->CANCELLED, RUNNING->SUCCESS and RUNNING->FAILED;
\* a record enters the table as PENDING and no write takes effect on a job
\* that is SUCCESS, FAILED or CANCELLED.
C1_OnlyDiagramEdges ==
    [][\A k \in DOMAIN table' :
          IF k \in DOMAIN table
          THEN \/ table'[k].status = table[k].status
               \/ <<table[k].status, table'[k].status>> \in DiagramEdges
          ELSE table'[k].status = PENDING]_vars

\* C2: when execute is invoked for a job whose stored status is not PENDING,
\* its first step writes no status and no START_JOB entry, and the worker
\* does not go on to run the command.
C2_ExecuteAbortsUnlessPending ==
    [][\A w \in Workers :
          (/\ wPc[w] = "leased"
           /\ wPc'[w] # "leased"
           /\ StatusOf(table, wMsg[w].tenant_id, wMsg[w].job_id) # PENDING)
          => (/\ table' = table
              /\ audit' = audit
              /\ wPc'[w] # "started")]_vars

\* C3: a worker that holds a re-delivered message (a receipt after the
\* first) for a job that is SUCCESS, FAILED or CANCELLED changes neither the
\* job nor the audit log and does not start the command.
C3_RedeliveryOfTerminalIsNoOp ==
    [][\A w \in Workers :
          (/\ wPc[w] = "leased"
           /\ wPc'[w] # "leased"
           /\ wMsg[w].handle > 1
           /\ StatusOf(table, wMsg[w].tenant_id, wMsg[w].job_id) \in Terminal)
          => (/\ table' = table
              /\ audit' = audit
              /\ wPc'[w] # "started")]_vars

\* C4: of cancel_job and a worker on the same job exactly one wins: once
\* the job is CANCELLED it stays CANCELLED and its command is not run, and
\* a cancel_job that finds the job RUNNING fails and changes nothing.
C4_ExactlyOneWins ==
    [][\A k \in DOMAIN table :
          /\ table[k].status = CANCELLED
                => (/\ table'[k].status = CANCELLED
                    /\ runs'[k[2]] = runs[k[2]])
          /\ \A c \in Clients :
                (table[k].status = RUNNING
                    /\ CancelJob(c, k[1], k[2], TRUE, "new"))
                => (resp'.statusCode # 200 /\ table' = table)]_vars

\* What a successful cancel_job may do to the audit log
CancelAppends(t, j) ==
    audit' = [audit EXCEPT ![t] = Append(@, Entry("CANCEL_JOB", j))]

CancelAuditDropped(t, j) ==
    \/ audit' = audit
    \/ /\ Len(audit[t]) > 0
       /\ audit' = [audit EXCEPT ![t] =
                        [@ EXCEPT ![Len(@)] = Entry("CANCEL_JOB", j)]]

\* A cancel_job call that reaches a working store: on a PENDING job it
\* answers 200, sets CANCELLED and has the audit effect AuditEffect; on any
\* other job, or none, it fails and leaves table and audit log alone.
CancelStep(c, t, j, AuditEffect(_, _)) ==
    (\E how \in AuditHow : CancelJob(c, t, j, TRUE, how))
    => IF StatusOf(table, t, j) = PENDING
       THEN /\ resp'.statusCode = 200
            /\ table' = [table EXCEPT ![<<t, j>>].status = CANCELLED]
            /\ AuditEffect(t, j)
       ELSE /\ resp'.statusCode # 200
            /\ table' = table
            /\ audit' = audit

\* No job becomes PENDING again, so a cancel_job succeeds at most once.
NeverPendingAgain ==
    \A k \in DOMAIN table :
        table[k].status # PENDING
            => (k \in DOMAIN table' /\ table'[k].status # PENDING)

\* C5 (as stated): cancel_job on a PENDING job succeeds exactly once, sets
\* CANCELLED and appends one CANCEL_JOB audit entry; on any other job it
\* fails and leaves the job record and the audit log unchanged.
C5_CancelAppendsOneEntry ==
    [][/\ NeverPendingAgain
       /\ \A c \in Clients, t \in Tenants, j \in JobIds :
             CancelStep(c, t, j, CancelAppends)]_vars

CancelAppendsOrDropped(t, j) ==
    CancelAppends(t, j) \/ CancelAuditDropped(t, j)

\* C5 (amended): cancel_job on a PENDING job succeeds exactly once, sets
\* CANCELLED and makes one CANCEL_JOB audit write, which appends one entry,
\* or is lost when the write fails, or replaces the tenant's newest entry
\* when the timestamps are equal; on any other job it fails and leaves the
\* job record and the audit log unchanged.
C5_CancelOnce ==
    [][/\ NeverPendingAgain
       /\ \A c \in Clients, t \in Tenants, j \in JobIds :
             CancelStep(c, t, j, CancelAppendsOrDropped)]_vars

\* C5 witness: a second cancel_job of a job that a first one cancelled has
\* just been refused.
C5_Witness ==
    /\ resp = ErrorResp("cancel", "ConditionalCheckFailedException")
    /\ \E k \in DOMAIN table :
          /\ table[k].status = CANCELLED
          /\ \E i \in 1..Len(audit[k[1]]) :
                audit[k[1]][i] = Entry("CANCEL_JOB", k[2])

\* C6: cancelling a job that is no longer PENDING is rejected as a no-op and
\* answered with a conflict signal: neither success nor the answer given
\* for an exception or a storage error (status 500).
C6_ConflictIsNotAnError ==
    [][\A c \in Clients, k \in DOMAIN table :
          (table[k].status # PENDING /\ CancelJob(c, k[1], k[2], TRUE, "new"))
          => (/\ table' = table
              /\ audit' = audit
              /\ resp'.statusCode \notin {200, 500})]_vars

\* C7: every job message on the queue, visible or leased, and every message
\* a worker holds, refers to a job whose record is in the jobs table.
C7_PersistBeforePublish ==
    /\ \A m \in queue :
          m.body = "json" => HasItem(table, m.tenant_id, m.job_id)
    /\ \A w \in Workers :
          wMsg[w] # NoMsg => HasItem(table, wMsg[w].tenant_id, wMsg[w].job_id)

\* C7 witness: a message of a stored job is leased to a worker.
C7_Witness ==
    \E m \in queue, w \in Workers :
        /\ ~m.visible
        /\ wMsg[w].job_id = m.job_id
        /\ HasItem(table, m.tenant_id, m.job_id)

\* C8: a submit_job that returns a job record (201) has stored that job,
\* returns it as pending, and has placed exactly one message for it on the
\* queue.
C8_SubmitQueuesOneMessage ==
    (resp.op = "submit" /\ resp.statusCode = 201)
    => (/\ HasItem(table, resp.tenant_id, resp.job_id)
        /\ resp.status = PENDING
        /\ sent[resp.job_id] = 1)

\* Input that must be rejected: empty command, agent outside the
\* enumeration, or a missing field.
Rejected(agent, command) ==
    \/ agent = Missing
    \/ agent \notin AgentType
    \/ command = Missing
    \/ command = ""

\* C9: a submission with rejected input is answered with a failure and
\* stores no job, publishes no message and appends no audit entry.
C9_RejectedInputMutatesNothing ==
    [][\A c \in Clients, t \in Tenants, b \in Bodies :
          (Rejected(b.agent, b.command)
              /\ SubmitPut(c, t, b.agent, b.command, TRUE))
          => (/\ resp'.op = "submit"
              /\ resp'.statusCode \notin {200, 201}
              /\ table' = table
              /\ queue' = queue
              /\ audit' = audit
              /\ sent' = sent)]_vars

\* C9 witness: a submission has just been refused by validation while a job
\* is stored.
C9_Witness ==
    /\ resp.op = "submit"
    /\ resp.error \in {"KeyError", "ValueError", "ValidationError"}
    /\ table # <<>>

\* The job under key k was stored but its publish failed: a queue is
\* configured, no send_message for it succeeded, and no submit_job is still
\* on its way to publish it.
PublishFailed(k) ==
    /\ k \in DOMAIN table
    /\ queue_url # Null
    /\ sent[k[2]] = 0
    /\ \A c \in Clients :
          apiPc[c] = "send" => <<apiReq[c].tenant_id, apiReq[c].job_id>> # k

\* Nothing deletes, publishes or executes the orphan.
OrphanKept(k) ==
    /\ runs[k[2]] = 0
    /\ \A m \in queue : <<m.tenant_id, m.job_id>> # k
    /\ \A w \in Workers : <<wMsg[w].tenant_id, wMsg[w].job_id>> # k

\* The failed publish is answered with a failure and leaves the record
\* stored; get_job on an orphan answers 200 with the stored status.
PublishFailureReported ==
    /\ \A c \in Clients :
          (queue_url # Null /\ SubmitSend(c, FALSE, "new"))
          => (/\ resp'.statusCode \notin {200, 201}
              /\ HasItem(table', apiReq[c].tenant_id, apiReq[c].job_id))
    /\ \A c \in Clients, k \in DOMAIN table :
          (PublishFailed(k) /\ GetJob(c, k[1], k[2]))
          => (/\ resp'.statusCode = 200
              /\ resp'.status = table[k].status)
    /\ \A k \in DOMAIN table : PublishFailed(k) => PublishFailed(k)'

\* C10 (as stated): a job whose publish failed remains stored with status
\* PENDING, and nothing deletes, re-publishes or executes it.
C10_OrphanStaysPending ==
    \A k \in DOMAIN table :
        PublishFailed(k) => (table[k].status = PENDING /\ OrphanKept(k))

\* C10 (amended): when the store write succeeds and the publish fails, the
\* caller receives a failure, the record stays stored and retrievable by
\* get_job with status PENDING, or CANCELLED once the tenant has cancelled
\* it, and nothing deletes, re-publishes or executes it.
C10_OrphanPendingOrCancelled ==
    /\ [](\A k \in DOMAIN table :
            PublishFailed(k)
                => (table[k].status \in {PENDING, CANCELLED} /\ OrphanKept(k)))
    /\ [][PublishFailureReported]_vars

\* C10 witness: get_job has just returned an orphan that was cancelled.
C10_Witness ==
    \E k \in DOMAIN table :
        /\ PublishFailed(k)
        /\ table[k].status = CANCELLED
        /\ resp = ItemResp("get", 200, k[1], k[2], CANCELLED)

\* The message m is still on the queue after the step.
StillQueued(m) ==
    \E n \in queue' :
        /\ n.tenant_id = m.tenant_id
        /\ n.job_id = m.job_id
        /\ n.body = m.body

\* C11: a message leaves the queue only in the step of a worker whose
\* execute call for it has returned (the worker is past its final status
\* write); a message whose body does not decode, and the message of an
\* execute call that raised, stay on the queue, leased, and the visibility
\* timeout makes them deliverable again.
C11_DeleteOnlyAfterExecuteReturned ==
    [][/\ \A m \in queue :
            ~StillQueued(m)
                => \E w \in Workers :
                      /\ wPc[w] = "written"
                      /\ wPc'[w] = "idle"
                      /\ wMsg[w].tenant_id = m.tenant_id
                      /\ wMsg[w].job_id = m.job_id
       /\ \A w \in Workers, m \in queue :
            (m.body # "json" /\ Receive(w, m))
                => \E n \in queue' : n.body = m.body /\ ~n.visible
       /\ \A w \in Workers : ExecRun(w, FALSE, TRUE) => queue' = queue]_vars

\* C11 witness: a message whose body does not decode has been received,
\* has become visible again and has been received a second time.
C11_Witness ==
    \E m \in queue : m.body = "garbage" /\ m.recv = 2 /\ ~m.visible

\* submit_job for job j of tenant t succeeded: the record is stored and
\* its message was published.
Published(t, j) == HasItem(table, t, j) /\ sent[j] > 0

\* Every receive the behaviour is allowed went to other messages.
DeliveriesSpentElsewhere(t, j) ==
    /\ receives = MaxReceives
    /\ \E m \in queue :
          m.tenant_id = t /\ m.job_id = j /\ m.recv < MaxReceives

JobOf(w) == <<wMsg[w].tenant_id, wMsg[w].job_id>>

\* What one audit write of (action, job j) for tenant t may do to the log
Appends(t, action, j) ==
    audit' = [audit EXCEPT ![t] = Append(@, Entry(action, j))]

LostOrReplaces(t, action, j) ==
    \/ audit' = audit
    \/ /\ Len(audit[t]) > 0
       /\ audit' = [audit EXCEPT ![t] =
                        [@ EXCEPT ![Len(@)] = Entry(action, j)]]

InLog(t, action, j) ==
    \E i \in 1..Len(audit[t]) : audit[t][i] = Entry(action, j)

C14_NonZeroStoresStderr ==
    [][\A w \in Workers, o \in {"exit1", "exit1quiet"}, how \in AuditHow :
          (wMsg[w].prior = PENDING /\ ExecFinish(w, o, how))
          => (/\ table'[JobOf(w)].status = FAILED
              /\ table'[JobOf(w)].error_message = FinalError(o))]_vars

C16_ExecutionErrorStoresFailed ==
    [][\A w \in Workers :
          /\ (ExecRun(w, FALSE, TRUE) \/ ExecRun(w, TRUE, FALSE))
                => (wPc'[w] = "ran" /\ wOut'[w] = "spawn")
          /\ \A how \in AuditHow :
                ExecFinish(w, "spawn", how)
                    => (/\ table'[JobOf(w)].status = FAILED
                        /\ table'[JobOf(w)].error_message = FinalError("spawn")
                        /\ Appends(wMsg[w].tenant_id, "JOB_ERROR",
                                   wMsg[w].job_id))]_vars

\* C17: an execute invocation that moved its job to RUNNING ends only after
\* it has itself written SUCCESS or FAILED for the job.
C17_InvocationEndsTerminal ==
    [][\A w \in Workers :
          (wPc[w] \in {"started", "ran"} /\ wPc'[w] # wPc[w])
          => (/\ wPc'[w] \in {"ran", "written"}
              /\ wPc'[w] = "written"
                    => table'[JobOf(w)].status \in {SUCCESS, FAILED})]_vars

\* C18: a job record carries a completion timestamp if and only if its
\* status is SUCCESS, FAILED or CANCELLED.
C18_CompletedAtIffTerminal ==
    \A k \in DOMAIN table :
        (table[k].completed_at # Null) <=> (table[k].status \in Terminal)

\* The status of the tenant that owns the item under key k
OwnerStatus(tbl, k) == OldItem(tbl, Metadata(k[1])).status

C20_DeniesInactiveTenant ==
    \A token \in Tokens :
        \A first \in Firsts(tenantsTable, token) :
            (/\ first \in DOMAIN tenantsTable
             /\ OwnerStatus(tenantsTable, first) \in {SUSPENDED, DELETED})
            => Decision(tenantsTable, token, TRUE, first).effect = "Deny"

\* The tokens and first items of the lookup that C21 is about: a recognized
\* prefix, and a non-revoked key record of an active tenant as the record
\* the digest resolves to.
ValidCredential(token, first) ==
    /\ HasKeyPrefix(ApiKeyOf(token))
    /\ first \in DOMAIN tenantsTable
    /\ tenantsTable[first].revoked # "true"
    /\ OwnerStatus(tenantsTable, first) = ACTIVE

\* C21 (as stated): for every credential with a recognized prefix whose
\* digest resolves to a non-revoked key record of an active tenant, the
\* authorizer returns Allow whose principal and context tenant_id are the
\* tenant that owns the record, with the scopes stored in that record.
C21_AllowsWithRecordScopes ==
    \A token \in Tokens :
        \A first \in Firsts(tenantsTable, token) :
            ValidCredential(token, first)
            => Decision(tenantsTable, token, TRUE, first) =
                   [effect |-> "Allow", principalId |-> first[1],
                    tenant_id |-> first[1],
                    scopes |-> tenantsTable[first].scopes]

\* C21 (amended): as above, with the scopes stored in the record when it
\* stores any, and the list ["job:run"] when it stores none.
C21_AllowsWithScopesOrDefault ==
    \A token \in Tokens :
        \A first \in Firsts(tenantsTable, token) :
            ValidCredential(token, first)
            => Decision(tenantsTable, token, TRUE, first) =
                   [effect |-> "Allow", principalId |-> first[1],
                    tenant_id |-> first[1],
                    scopes |-> IF tenantsTable[first].scopes = NoList
                               THEN <<"job:run">>
                               ELSE tenantsTable[first].scopes]

\* C21 witness: the authorizer has just allowed a credential of an active
\* tenant that owns a non-revoked indexed key record.
C21_Witness ==
    /\ authOut.effect = "Allow"
    /\ authOut.principalId \in Tenants
    /\ OwnerStatus(tenantsTable, Metadata(authOut.tenant_id)) = ACTIVE
    /\ \E k \in DOMAIN tenantsTable :
          /\ k[1] = authOut.tenant_id
          /\ tenantsTable[k].api_key_hash # NoHash
          /\ tenantsTable[k].revoked = "false"

\* C22: when the index query raises, the authorizer's decision is Deny,
\* whatever the credential and whatever the table holds; no invocation
\* whose query raised returns Allow.
C22_FailClosed ==
    /\ \A token \in Tokens :
          \A first \in Firsts(tenantsTable, token) :
              Decision(tenantsTable, token, FALSE, first) = Deny
    /\ lookup = "raised" => authOut = Deny

\* C22 witness: the query has just raised and the authorizer has denied,
\* while a non-revoked indexed key record exists and no revoked one does.
C22_Witness ==
    /\ lookup = "raised"
    /\ authOut.effect = "Deny"
    /\ \E k \in DOMAIN tenantsTable :
          /\ tenantsTable[k].api_key_hash # NoHash
          /\ tenantsTable[k].revoked = "false"
    /\ \A k \in DOMAIN tenantsTable : tenantsTable[k].revoked # "true"

\* The three causes of a denial that C23 is about, for a credential with a
\* recognized prefix: the query found no record, the record found is
\* revoked, the query raised.
NotFound(token, ok, first) ==
    ok /\ IndexQuery(tenantsTable, Hash(ApiKeyOf(token))) = {}

Revoked(token, ok, first) ==
    ok /\ first \in DOMAIN tenantsTable /\ tenantsTable[first].revoked = "true"

LookupFailed(token, ok, first) == ~ok

\* What the authorizer returns over all invocations that one of the three
\* causes applies to
DenialsBy(Cause(_, _, _)) ==
    {Decision(tenantsTable, token[1], token[2], token[3]) :
        token \in {x \in Tokens \X BOOLEAN \X
                           (DOMAIN tenantsTable \cup {Metadata(Null)}) :
                      /\ HasKeyPrefix(ApiKeyOf(x[1]))
                      /\ x[3] \in Firsts(tenantsTable, x[1])
                      /\ Cause(x[1], x[2], x[3])}}

\* C23: the authorizer's output is the same whether the key was not found,
\* was revoked, or the lookup failed: Deny, principal "anonymous", empty
\* context.  (The Resource of the policy is the methodArn of the event,
\* copied as it is.)
C23_DenialsIndistinguishable ==
    \A d \in DenialsBy(NotFound) \cup DenialsBy(Revoked)
                \cup DenialsBy(LookupFailed) :
        /\ d = Deny
        /\ d.principalId = "anonymous"
        /\ d.tenant_id = Null
        /\ d.scopes = NoList

\* C23 witness: the authorizer has just denied after a query that did not
\* raise, in a state where a revoked key record and a non-revoked one are
\* indexed, so that each of the three causes has a credential.
C23_Witness ==
    /\ authOut = Deny
    /\ lookup = "ok"
    /\ DenialsBy(NotFound) # {}
    /\ DenialsBy(Revoked) # {}
    /\ DenialsBy(LookupFailed) # {}
    /\ \E k \in DOMAIN tenantsTable :
          /\ tenantsTable[k].api_key_hash # NoHash
          /\ tenantsTable[k].revoked = "false"

\* C24: submit_job and cancel_job run for a request only after the
\* authorizer returned Allow, and under the tenant id of that Allow, never
\* under a tenant id the caller supplied.  An operation has run when the
\* jobs table has changed.
C24_JobOperationsBehindAllow ==
    [][\A c \in Clients, ctx \in Headers, h \in Headers :
          /\ \A b \in Bodies :
                (/\ HandlerPost(c, ctx, h, b.agent, b.command, TRUE)
                 /\ table' # table)
                => (authOut.effect = "Allow" /\
                    TenantId(ctx, h) = authOut.tenant_id)
          /\ \A j \in JobIds, how \in AuditHow :
                (/\ HandlerDelete(c, ctx, h, j, TRUE, how)
                 /\ table' # table)
                => (authOut.effect = "Allow" /\
                    TenantId(ctx, h) = authOut.tenant_id)]_vars

\* C26: the audit log is immutable and additive: no step makes a tenant's
\* log shorter or changes an entry it holds, and get_tenant_audit returns
\* the tenant's entries newest first, at most limit of them.
C26_AuditImmutableAdditive ==
    /\ [][\A t \in Tenants :
             /\ Len(audit'[t]) >= Len(audit[t])
             /\ \A i \in 1..Len(audit[t]) : audit'[t][i] = audit[t][i]]_vars
    /\ [](\A t \in Tenants, limit \in {1, 2, 50} :
             LET r == GetTenantAudit(audit, t, limit, TRUE)
             IN /\ Len(r) <= limit
                /\ \A i \in 1..Len(r) : r[i] = audit[t][Len(audit[t]) + 1 - i])

\* C27: a failure of the audit write never fails the operation it
\* describes: whatever the outcome of their audit writes, submit_job,
\* cancel_job and the two status writes of Worker.execute lead to one and
\* the same jobs table, queue and return value.
C27_AuditFailureNeverFailsOperation ==
    [][\A how \in AuditHow :
          /\ \A c \in Clients :
                SubmitSend(c, TRUE, how)
                => (/\ table' = table
                    /\ queue' = IF queue_url = Null THEN queue
                                ELSE queue \cup
                                     {[tenant_id |-> apiReq[c].tenant_id,
                                       job_id |-> apiReq[c].job_id,
                                       body |-> "json", visible |-> TRUE,
                                       recv |-> 0]}
                    /\ resp' = ItemResp("submit", 201, apiReq[c].tenant_id,
                                        apiReq[c].job_id, PENDING))
          /\ \A c \in Clients, t \in Tenants, j \in JobIds :
                (CancelCondition(table, t, j) /\ CancelJob(c, t, j, TRUE, how))
                => (/\ table' = CancelUpdate(table, t, j)
                    /\ queue' = queue
                    /\ resp' = CancelledResp)
          /\ \A w \in Workers :
                ExecStart(w, how)
                => (/\ table' = UpdateJobStatus(table, wMsg[w].tenant_id,
                                                wMsg[w].job_id, RUNNING, Null)
                    /\ queue' = queue
                    /\ wPc'[w] = "started")
          /\ \A w \in Workers, o \in Outcomes :
                ExecFinish(w, o, how)
                => (/\ table' = UpdateJobStatus(table, wMsg[w].tenant_id,
                                                wMsg[w].job_id, FinalStatus(o),
                                                FinalError(o))
                    /\ queue' = queue
                    /\ wPc'[w] = "written")]_vars

\* C27 witness: submit_job has just answered 201 for a job that is stored
\* and queued, and its audit write failed: no audit entry exists.
C27_Witness ==
    /\ resp.op = "submit"
    /\ resp.statusCode = 201
    /\ faults = 1
    /\ <<resp.tenant_id, resp.job_id>> \in DOMAIN table
    /\ \E m \in queue : m.job_id = resp.job_id /\ m.body = "json"
    /\ \A t \in Tenants : audit[t] = <<>>

\* C28: list_jobs(tenant, limit) returns only jobs of that tenant, by
\* descending job id, never more than limit of them, and all of the
\* tenant's jobs when there are at most limit of them; without a limit
\* argument the limit is 50.
C28_ListJobsNewestFirst ==
    /\ DefaultLimit = 50
    /\ \A t \in Tenants, limit \in Limits :
          LET r == ListJobs(table, t, limit)
              own == {k \in DOMAIN table : k[1] = t}
          IN /\ \A i \in 1..Len(r) :
                   r[i].tenant_id = t /\ Key(t, r[i].job_id) \in DOMAIN table
             /\ \A i \in 1..Len(r), j \in 1..Len(r) :
                   i < j => r[i].job_id > r[j].job_id
             /\ Len(r) <= limit
             /\ Cardinality(own) <= limit
                   => {Key(t, r[i].job_id) : i \in 1..Len(r)} = own
    /\ listOut # NoListing
          => listOut.items = ListJobs(table, listOut.tenant_id, listOut.limit)

\* C28 witness: list_jobs has just returned two jobs, newest first, for a
\* tenant that has three, while the other tenant has jobs too.
C28_Witness ==
    /\ listOut.limit = 2
    /\ Len(listOut.items) = 2
    /\ listOut.items[1].job_id > listOut.items[2].job_id
    /\ Cardinality({k \in DOMAIN table : k[1] = listOut.tenant_id}) = 3
    /\ \E k \in DOMAIN table : k[1] # listOut.tenant_id

\* The raw keys generate_key can return: a key is the one-word string
RawKeys == {<<w>> : w \in KeyWords}

\* C25: the raw key that generate_key returns is in no persisted state: no
\* attribute of an item of the tenants table holds a raw key, a key record
\* holds the digest only, and every audit entry names a tenant id or a key
\* id as its resource.
C25_RawKeyNeverPersisted ==
    /\ \A k \in DOMAIN tenantsTable :
          /\ tenantsTable[k].key_hash \notin RawKeys
          /\ tenantsTable[k].api_key_hash \notin RawKeys
          /\ tenantsTable[k].key_hash # NoHash
                => \E r \in RawKeys : tenantsTable[k].key_hash = Hash(r)
    /\ \A t \in Tenants :
          \A i \in 1..Len(audit[t]) :
              audit[t][i].resource \in KeyIds \cup Tenants

\* C25 witness: generate_key has stored a key record and its GENERATE_KEY
\* audit entry.
C25_Witness ==
    \E k \in DOMAIN tenantsTable :
        /\ tenantsTable[k].key_hash # NoHash
        /\ \E i \in 1..Len(audit[k[1]]) :
              audit[k[1]][i] = Entry("GENERATE_KEY", k[2])

\* C29: after stop() the poller makes no new receive and start() returns
\* in the end; a message the poller holds when the signal arrives is still
\* executed to completion and deleted: a stopped poller lets go of a
\* message only by deleting it after execute has written the final status.
C29_GracefulShutdown ==
    /\ [][\A w \in Workers :
             /\ (\E m \in queue : Receive(w, m)) => running[w]
             /\ (~running[w] /\ wPc[w] \notin {"idle", "exited"}
                    /\ wPc'[w] = "idle")
                => (/\ wPc[w] = "written"
                    /\ \A m \in queue' :
                          ~(/\ m.tenant_id = wMsg[w].tenant_id
                            /\ m.job_id = wMsg[w].job_id
                            /\ m.recv = wMsg[w].handle))]_vars
    /\ \A w \in Workers : (~running[w]) ~> (wPc[w] = "exited")

\* C30: while the cache entry of a secret is younger than the TTL of 300
\* seconds, get_api_key_secret returns the cached value and does not read
\* the backend, whatever the backend holds by then; the first get at or
\* after the expiry reads the backend and returns its current value, which
\* becomes the cached one.
C30_BoundedStalenessCache ==
    /\ CacheTtl = 300
    /\ [][\A t \in Tenants, k \in KeyNames :
             LET n == SecretName(t, k) IN
             GetSecret(t, k, TRUE)
             => /\ (n \in DOMAIN cache /\ now - cache[n].timestamp < 300)
                   => (/\ secretOut' = [name |-> n, value |-> cache[n].value,
                                        read |-> FALSE]
                       /\ cache' = cache)
                /\ (/\ n \in DOMAIN cache
                    /\ now - cache[n].timestamp >= 300
                    /\ secrets[n] # Null)
                   => (/\ secretOut' = [name |-> n, value |-> secrets[n],
                                        read |-> TRUE]
                       /\ cache'[n] = [value |-> secrets[n],
                                       timestamp |-> now])]_vars

\* C30 witness: a get has just returned the cached value without reading
\* the backend, whose value has changed since; the entry is 200 seconds
\* old.
C30_Witness ==
    /\ secretOut.name \in DOMAIN cache
    /\ ~secretOut.read
    /\ secretOut.value = cache[secretOut.name].value
    /\ secrets[secretOut.name] \in SecretValues \ {secretOut.value}
    /\ now - cache[secretOut.name].timestamp = 200

\* C31: after delete_api_key_secret(tenant, key) has returned without
\* raising, the next get_api_key_secret(tenant, key) of the same manager
\* does not answer from the cache: it reads the backend and fails, also
\* when the delete found the secret already gone.
C31_DeleteInvalidatesCache ==
    [][\A t \in Tenants, k \in KeyNames :
          LET n == SecretName(t, k) IN
          (/\ secretOut = [name |-> n, value |-> Null, read |-> FALSE]
           /\ \E ok \in BOOLEAN : GetSecret(t, k, ok))
          => secretOut' = [name |-> n, value |-> "ClientError",
                           read |-> TRUE]]_vars

\* The audit actions that match a terminal status
FinalActionsOf(status) ==
    IF status = SUCCESS THEN {"JOB_SUCCESS"}
    ELSE {"JOB_FAILED", "JOB_TIMEOUT", "JOB_ERROR"}

\* C32 (as stated): an execute invocation that returns normally has made
\* exactly one terminal status write, and the audit log shows its entries
\* in order: START_JOB for the job, then one entry among JOB_SUCCESS,
\* JOB_FAILED, JOB_TIMEOUT and JOB_ERROR that matches the status written.
C32_TerminalOnceWithAuditTrail ==
    [][\A w \in Workers, how \in AuditHow, o \in Outcomes :
          ExecFinish(w, o, how)
          => (/\ table'[JobOf(w)].status \in {SUCCESS, FAILED}
              /\ InLog(wMsg[w].tenant_id, "START_JOB", wMsg[w].job_id)
              /\ \E a \in FinalActionsOf(table'[JobOf(w)].status) :
                    Appends(wMsg[w].tenant_id, a, wMsg[w].job_id))]_vars

\* C32 (amended): an execute invocation returns normally only from its
\* final step, which makes the invocation's one terminal status write
\* (SUCCESS or FAILED); before it the invocation wrote RUNNING and made the
\* START_JOB audit write and nothing else, and with it the invocation
\* makes one audit write of an action that matches the status written.
\* Each audit write appends one entry, or is lost, or replaces the tenant's
\* newest entry.
C32_TerminalOnceWithAuditWrites ==
    [][\A w \in Workers :
          LET t == wMsg[w].tenant_id
              j == wMsg[w].job_id
          IN
          /\ \A how \in AuditHow :
                ExecStart(w, how)
                => (/\ table'[JobOf(w)].status = RUNNING
                    /\ \/ Appends(t, "START_JOB", j)
                       \/ LostOrReplaces(t, "START_JOB", j))
          /\ \A mkOk, spawnOk \in BOOLEAN :
                ExecRun(w, mkOk, spawnOk) => (table' = table /\ audit' = audit)
          /\ \A how \in AuditHow, o \in Outcomes :
                ExecFinish(w, o, how)
                => (/\ wMsg[w].prior # Null
                    /\ table'[JobOf(w)].status \in {SUCCESS, FAILED}
                    /\ \E a \in FinalActionsOf(table'[JobOf(w)].status) :
                          \/ Appends(t, a, j)
                          \/ LostOrReplaces(t, a, j))
          /\ (wPc[w] # "written" /\ wPc'[w] = "written")
                => \E how \in AuditHow, o \in Outcomes : ExecFinish(w, o, how)
      ]_vars

\* C32 witness: an execution has just written failed for its job, and the
\* log shows START_JOB for the job and, after it, JOB_FAILED.
C32_Witness ==
    \E w \in Workers :
        LET log == audit[wMsg[w].tenant_id] IN
        /\ wPc[w] = "written"
        /\ table[JobOf(w)].status = FAILED
        /\ \E i, k \in 1..Len(log) :
              /\ i < k
              /\ log[i] = Entry("START_JOB", wMsg[w].job_id)
              /\ log[k] = Entry("JOB_FAILED", wMsg[w].job_id)

\* C33: every command the Executor starts, starts in the workspace
\* directory of its (tenant id, job id), and that directory is empty at
\* that moment: it holds no file of another job and none of an earlier
\* execution of the same job, also when the job's message was delivered
\* more than once.
C33_WorkspaceEmptyAtStart ==
    [][\A w \in Workers :
          ExecRun(w, TRUE, TRUE)
          => (/\ ChildOf(w) \in children'
              /\ workspace'[WorkspaceDir(wMsg[w].tenant_id,
                                         wMsg[w].job_id)] = {})]_vars

\* C40: once the Executor has written a terminal status for a job, no
\* child process of that execution is running any more; when the timeout
\* fires and the job is marked failed, the command's process has been
\* terminated and cannot write to the workspace.
C40_NoChildAfterTerminalWrite ==
    [][\A w \in Workers, o \in Outcomes, how \in AuditHow :
          ExecFinish(w, o, how)
          => (/\ table'[JobOf(w)].status \in {SUCCESS, FAILED}
              /\ ChildOf(w) \notin children')]_vars

\* C34: no published job is lost while unfinished: whenever the stored
\* status of a job is pending or running and its message was published,
\* the message is on the queue, visible or leased; no delete by a consumer
\* leaves such a job without its message, also when the message was
\* delivered to two consumers.
C34_UnfinishedJobKeepsMessage ==
    \A k \in DOMAIN table :
        (table[k].status \in {PENDING, RUNNING} /\ sent[k[2]] > 0)
        => \E m \in queue : m.tenant_id = k[1] /\ m.job_id = k[2]

\* C35: a stored job whose status is success carries no error_message,
\* and an error_message that is present was written by the status write
\* that set the current status, which only a write of failed does: no
\* error text of an earlier execution survives a later status write.
C35_ErrorMessageBelongsToStatus ==
    \A k \in DOMAIN table :
        /\ table[k].status = SUCCESS => table[k].error_message = Null
        /\ table[k].error_message # Null => table[k].status = FAILED

\* C36: key lifecycle round trip: the raw key generate_key returned for a
\* tenant is allowed by the authorizer, with that tenant as tenant_id, from
\* the moment it is issued until revoke_key has succeeded for it, and is
\* denied by every authorization after that.
C36_KeyLifecycleRoundTrip ==
    \A k \in DOMAIN tenantsTable, w \in KeyWords :
        tenantsTable[k].key_hash = Hash(<<w>>)
        => \A first \in Firsts(tenantsTable, <<w>>) :
              LET d == Decision(tenantsTable, <<w>>, TRUE, first) IN
              IF tenantsTable[k].revoked = "false"
              THEN d.effect = "Allow" /\ d.tenant_id = k[1]
              ELSE d.effect = "Deny"

\* C37: tenant isolation of job operations: get_job, list_jobs and
\* cancel_job called under tenant A never return and never modify a job of
\* another tenant B, also when they are given the id of a job of B; get_job
\* then reports not found and cancel_job fails.
C37_TenantIsolation ==
    [][\A a \in Tenants :
          LET others == {k \in DOMAIN table : k[1] # a}
              Untouched == /\ DOMAIN table' = DOMAIN table
                           /\ \A k \in others : table'[k] = table[k]
          IN
          /\ \A c \in Clients, j \in 1..MaxListed :
                GetJob(c, a, j)
                => (/\ Untouched
                    /\ resp'.tenant_id \in {a, Null}
                    /\ <<a, j>> \notin DOMAIN table => resp' = NotFoundResp)
          /\ \A limit \in Limits :
                ListCall(a, limit)
                => (/\ Untouched
                    /\ \A i \in 1..Len(listOut'.items) :
                          LET it == listOut'.items[i] IN
                          /\ it.tenant_id = a
                          /\ <<a, it.job_id>> \in DOMAIN table
                          /\ it.status = table[<<a, it.job_id>>].status)
          /\ \A c \in Clients, j \in 1..MaxListed, ok \in BOOLEAN,
                how \in AuditHow :
                CancelJob(c, a, j, ok, how)
                => (/\ Untouched
                    /\ <<a, j>> \notin DOMAIN table
                          => (/\ resp'.statusCode = 500
                              /\ table' = table
                              /\ audit' = audit))]_vars

\* C37 witness: jobs 1, 2 and 3 are T1's, and a get_job for one of them has
\* just reported not found: it was T2 that asked.
C37_Witness ==
    /\ resp = NotFoundResp
    /\ DOMAIN table = {<<"T1", 1>>, <<"T1", 2>>, <<"T1", 3>>}

\* C38: every log_action whose store write succeeds adds exactly one new
\* entry to the audit log of its tenant and overwrites no entry that is
\* there, also when two actions of the tenant are logged with the same
\* timestamp: a step that writes a tenant's log leaves it one entry longer,
\* with the earlier entries as they were.
C38_LogActionAddsOneEntry ==
    [][\A t \in Tenants :
          audit'[t] # audit[t]
          => (/\ Len(audit'[t]) = Len(audit[t]) + 1
              /\ SubSeq(audit'[t], 1, Len(audit[t])) = audit[t])]_vars

\* C39: the poll loop of JobPoller.start never ends because of an
\* exception: a receive that fails, a message body that does not decode and
\* an Executor call that throws are absorbed, and the poller is back in its
\* loop, ready for the next receive; the loop is left only after stop() has
\* set running to False.
C39_LoopSurvivesExceptions ==
    /\ [][\A w \in Workers :
             /\ (wPc[w] # "exited" /\ wPc'[w] = "exited") => ~running[w]
             /\ ReceiveFails(w) => wPc'[w] = "idle"
             /\ (\E m \in queue : m.body # "json" /\ Receive(w, m))
                   => wPc'[w] = "idle"
             /\ ExecRun(w, FALSE, TRUE) => wPc'[w] = "idle"]_vars
    /\ [](\A w \in Workers :
             (wPc[w] = "idle" /\ running[w])
             => \A m \in queue : (m.visible /\ receives < MaxReceives)
                                     => ENABLED Receive(w, m))

\* C39 witness: a job is RUNNING and its message is leased after one
\* delivery, yet no poller holds it: the Executor call raised, and every
\* poller is in its loop with its flag up.
C39_Witness ==
    /\ \A w \in Workers : wPc[w] = "idle" /\ running[w]
    /\ \E m \in queue :
          /\ m.body = "json"
          /\ ~m.visible
          /\ m.recv = 1
          /\ table[<<m.tenant_id, m.job_id>>].status = RUNNING

====
